---- MODULE Spec2Model ----
(***************************************************************************)
(* Model of the UTDL runner (runner/src): the DAG scheduler of             *)
(* planner/mod.rs, the retry loop of main.rs, the RetryExecutor of         *)
(* retry/mod.rs and the HTTP executor's result logic of executors/http.rs. *)
(***************************************************************************)
EXTENDS Integers, Sequences, FiniteSets, Bags, TLC

(***************************************************************************)
(* Bounds of the model.                                                    *)
(***************************************************************************)
\* number of steps of a plan; step ids are 1..NumSteps
NumSteps == 3
\* largest limits.max_parallel tried (0 means "no limit" in the code)
MaxParallelBound == 2

\* largest number of steps of a plan whose action no executor handles
MaxUnknownActions == 1

\* largest number of results and ready ids with which the scheduler still
\* spawns a wave
MaxResults == 8

\* number of tasks of one wave whose locks are followed
NumLockTasks == 3

Nodes == 1..NumSteps

\* Step.recovery_policy = None
NoPolicy == [strategy |-> "none", max_attempts |-> 0]

\* Step.recovery_policy values tried for the steps of a plan
PlanPolicies ==
    {NoPolicy, [strategy |-> "retry", max_attempts |-> 2],
     [strategy |-> "ignore", max_attempts |-> 1]}

\* Step.action values tried: one handled by HttpExecutor, one handled by nobody
Actions == {"http_request", "unknown_action"}

\* what one call of StepExecutor::execute can produce:
\* Ok(StepResult{Passed}), Ok(StepResult{Failed}), Err(e)
ExecOutcomes == {"passed", "failed", "err"}

VARIABLES
    \* ---- the plan handed to DagPlanner::new and the limits
    depends_on,     \* ExecutionNode.dependencies of every node of DagPlanner.nodes
    dependents,     \* ExecutionNode.dependents of every node
    action,         \* Step.action of every step
    step_policy,    \* Step.recovery_policy of every step
    max_parallel,   \* limits.max_parallel
    \* ---- state of DagPlanner::execute
    permits,        \* free permits of the semaphore
    results,        \* results: Vec<StepResult>, kept as a bag (the push order is not modelled)
    completed,      \* completed: HashSet<String>
    failed,         \* failed: HashSet<String>
    ready,          \* ready: Vec<String>
    mainPc,         \* position of the main loop
    tasks,          \* the JoinSet of the current wave, one record per spawned task
    ctxLock,        \* index of the task holding the Context write lock, 0 if free
    invoked         \* history: number of executor calls made for every step

VARIABLES
    \* ---- the step handed to the retry loops and what its executor saw
    recovery_policy, \* Step.recovery_policy, NoPolicy for None
    assertions,      \* Step.assertions
    extract,         \* Step.extract
    context,         \* the Context the executor works on (context.variables)
    outcomes,        \* history: what the k-th call of the executor returned
    \* ---- state of execute_step_with_retry (main.rs)
    mPc,             \* position of the loop
    attempt,         \* attempt
    mResult,         \* the StepResult returned
    mInvoked,        \* history: number of executor.execute calls
    \* ---- state of RetryExecutor::execute (retry/mod.rs)
    rPc,             \* position of the loop
    rAttempt,        \* attempt
    rResult,         \* the Result<Option<T>, E> returned
    rInvoked         \* history: number of operation() calls

VARIABLES
    \* ---- the run of execute_plan (main.rs)
    plan,            \* the Plan loaded from the file
    parallel,        \* the --parallel flag
    limits,          \* ExecutionLimits::from_env()
    elapsed,         \* limits.max_execution_time has passed since the start
    runPc,           \* position in execute_plan
    errors,          \* the errors validate_plan returned, <<>> for Ok
    violations,      \* LimitValidationResult.violations
    step_results,    \* the statuses execute_sequential has collected (the parallel
                     \* branch collects them in results)
    runInvoked       \* history: number of executor calls of execute_sequential

VARIABLES
    \* ---- a Context and the calls made on it (context/mod.rs)
    variables,       \* Context.variables
    environment,     \* the process environment
    set_count,       \* history: number of set calls made
    last_set,        \* history: the key and the value of the last set call
    extend_count,    \* history: number of extend calls made
    extended,        \* history: the keys extend has written since the last set call
    query            \* history: the last get or interpolate_str call and its result

VARIABLES
    \* ---- a plan of independent steps run in two orders
    p_steps,         \* the steps of the plan
    runA,            \* the run in plan order: the Context and the results
    runB             \* the run in permuted order: the Context and the results

VARIABLES
    \* ---- the Context shared by the tasks of DagPlanner::execute
    d_context,       \* context.variables
    d_extracted      \* history: the targets every step extracted with success

VARIABLES
    \* ---- the locks of DagPlanner::execute as its main loop and its tasks take them
    lpc,             \* per process (0: the main loop, 1..: the tasks): its position
    holds            \* per process: the guards it holds, in the order it took them

VARIABLES
    \* ---- the sleeps of the two retry loops
    bk_policy,       \* the RecoveryPolicy of the step
    bk_main,         \* execute_step_with_retry: attempt and the sleeps made
    bk_rx            \* RetryExecutor::execute: attempt, current_backoff and the sleeps made

VARIABLES
    \* ---- a RetryCounter and the calls made on it
    rc_count,        \* RetryCounter.count
    rc_limit,        \* RetryCounter.limit
    rc_calls         \* per caller: where its try_increment call is, what it read and returned

dagVars == <<depends_on, dependents, action, step_policy, max_parallel, permits, results, completed,
             failed, ready, mainPc, tasks, ctxLock, invoked>>

retryVars == <<recovery_policy, assertions, extract, context, outcomes, mPc,
               attempt, mResult, mInvoked, rPc, rAttempt, rResult, rInvoked>>

runVars == <<plan, parallel, limits, elapsed, runPc, errors, violations, step_results,
             runInvoked>>

\* what the scheduler, the retry loops and execute_plan leave alone
ctxVars == <<variables, environment, set_count, last_set, extend_count, extended,
             query>>

permVars == <<p_steps, runA, runB>>

dagCtxVars == <<d_context, d_extracted>>

lockVars == <<lpc, holds>>

counterVars == <<rc_count, rc_limit, rc_calls>>

backoffVars == <<bk_policy, bk_main, bk_rx>>

\* what the scheduler leaves alone when its Context is not looked at
nonDagVars == <<retryVars, runVars, ctxVars, permVars, dagCtxVars, lockVars, backoffVars, counterVars>>
\* what the scheduler and its Context leave alone
nonSchedulerVars == <<retryVars, runVars, ctxVars, permVars, lockVars, backoffVars, counterVars>>
nonLockVars == <<dagVars, retryVars, runVars, ctxVars, permVars, dagCtxVars, backoffVars, counterVars>>
nonRetryVars == <<dagVars, runVars, ctxVars, permVars, dagCtxVars, lockVars, backoffVars, counterVars>>
nonRunVars == <<dagVars, retryVars, ctxVars, permVars, dagCtxVars, lockVars, backoffVars, counterVars>>
nonCtxVars == <<dagVars, retryVars, runVars, permVars, dagCtxVars, lockVars, backoffVars, counterVars>>
nonPermVars == <<dagVars, retryVars, runVars, ctxVars, dagCtxVars, lockVars, backoffVars, counterVars>>

nonBackoffVars == <<dagVars, retryVars, runVars, ctxVars, permVars, dagCtxVars, lockVars, counterVars>>

nonCounterVars == <<dagVars, retryVars, runVars, ctxVars, permVars, dagCtxVars, lockVars, backoffVars>>

vars == <<dagVars, retryVars, runVars, ctxVars, permVars, dagCtxVars, lockVars, backoffVars, counterVars>>

(***************************************************************************)
(* DagPlanner::new                                                         *)
(***************************************************************************)
\* ExecutionNode.dependencies: depends_on collected into a HashSet
dependencies(n) == depends_on[n]

\* DagPlanner.nodes: the keys of the HashMap
nodes == DOMAIN depends_on

\* lines 147-172 for steps of distinct ids: the dependents of a node are the
\* nodes that name it in their dependencies
inverse_edges(deps) ==
    [n \in DOMAIN deps |-> {d \in DOMAIN deps : n \in deps[d]}]

\* roots: the nodes whose dependencies are empty
roots == {n \in nodes : dependencies(n) = {}}

\* the Vecs that iterating a HashSet can build: the order is the map's
\* (RandomState), any order of the elements
SetToSeq(S) ==
    {s \in [1..Cardinality(S) -> S] : \A x \in S : \E i \in DOMAIN s : s[i] = x}

\* the executor registry of execute_plan is [HttpExecutor, WaitExecutor]
can_handle(e, a) ==
    \/ e = "http" /\ a = "http_request"
    \/ e = "wait" /\ a \in {"wait", "sleep"}

Executors == <<"http", "wait">>

\* executors.iter().find(|e| e.can_handle(&step.action)).is_some()
HasExecutor(a) == \E i \in 1..Len(Executors) : can_handle(Executors[i], a)

\* the semaphore sized by the plan whatever the limit is
SemaphoreSizeOfPlan ==
    IF Cardinality(nodes) > 1 THEN Cardinality(nodes) ELSE 1

\* Semaphore::new(max_parallel), 0 meaning the number of nodes
SemaphoreSize == IF max_parallel > 0 THEN max_parallel
                 ELSE IF Cardinality(nodes) > 1 THEN Cardinality(nodes) ELSE 1

\* transitive closure of depends_on
RECURSIVE Ancestors(_)
Ancestors(n) ==
    depends_on[n] \cup UNION {Ancestors(d) : d \in depends_on[n]}

(***************************************************************************)
(* Initial state: a valid plan (closed, acyclic: every dependency has a    *)
(* smaller id), any action per step, any max_parallel.                     *)
(***************************************************************************)
NewTask(id) ==
    [step_id |-> id, pc |-> "acquire", failed_dep |-> 0, status |-> "none",
     error |-> "none", to_add |-> {}]

PlanInit ==
    /\ depends_on \in {f \in [Nodes -> SUBSET Nodes] :
                          \A n \in Nodes : \A d \in f[n] : d < n}
    /\ dependents = inverse_edges(depends_on)
    /\ action \in {f \in [Nodes -> Actions] :
                      Cardinality({n \in Nodes : ~HasExecutor(f[n])})
                          <= MaxUnknownActions}
    /\ max_parallel \in 0..MaxParallelBound
    /\ permits = SemaphoreSize
    /\ results = EmptyBag
    /\ completed = {}
    /\ failed = {}
    /\ ready \in SetToSeq(roots)
    /\ mainPc = "loop"
    /\ tasks = <<>>
    /\ ctxLock = 0
    /\ invoked = [n \in Nodes |-> 0]

\* plans whose steps have no recovery_policy
DagInit ==
    /\ PlanInit
    /\ step_policy = [n \in Nodes |-> NoPolicy]

\* plans whose steps have any of the policies
PolicyInit ==
    /\ PlanInit
    /\ step_policy \in [Nodes -> PlanPolicies]

(***************************************************************************)
(* DagPlanner::execute, main loop                                          *)
(***************************************************************************)
\* the tasks of a JoinSet, one per id of to_execute. The set has no order and
\* its tasks run concurrently: they are kept in ascending order of step id
spawn(to_execute) ==
    LET ids == SortSeq(to_execute, LAMBDA a, b : a < b)
    IN [i \in 1..Len(ids) |-> NewTask(ids[i])]

\* lines 255-258 and 277-440: drain ready and spawn one task per id
MainSpawn ==
    /\ mainPc = "loop"
    /\ ready # <<>>
    /\ BagCardinality(results) + Len(ready) <= MaxResults
    /\ tasks' = spawn(ready)
    /\ ready' = <<>>
    /\ mainPc' = "join"
    /\ UNCHANGED <<depends_on, dependents, action, step_policy, max_parallel, permits, results,
                   completed, failed, ctxLock, invoked>>
    /\ UNCHANGED nonDagVars

\* lines 261-268: nothing ready and every node accounted for
MainBreak ==
    /\ mainPc = "loop"
    /\ ready = <<>>
    /\ Cardinality(completed) + Cardinality(failed) >= Cardinality(nodes)
    /\ mainPc' = "done"
    /\ UNCHANGED <<depends_on, dependents, action, step_policy, max_parallel, permits, results,
                   completed, failed, ready, tasks, ctxLock, invoked>>
    /\ UNCHANGED nonDagVars

\* lines 270-271: nothing ready, not finished: sleep 10 ms
MainSleep ==
    /\ mainPc = "loop"
    /\ ready = <<>>
    /\ Cardinality(completed) + Cardinality(failed) < Cardinality(nodes)
    /\ mainPc' = "sleeping"
    /\ UNCHANGED <<depends_on, dependents, action, step_policy, max_parallel, permits, results,
                   completed, failed, ready, tasks, ctxLock, invoked>>
    /\ UNCHANGED nonDagVars

\* line 272: the sleep is over, continue with the next turn of the loop
MainWake ==
    /\ mainPc = "sleeping"
    /\ mainPc' = "loop"
    /\ UNCHANGED <<depends_on, dependents, action, step_policy, max_parallel, permits, results,
                   completed, failed, ready, tasks, ctxLock, invoked>>
    /\ UNCHANGED nonDagVars

\* line 443: every task of the wave has finished
MainJoin ==
    /\ mainPc = "join"
    /\ \A i \in 1..Len(tasks) : tasks[i].pc = "done"
    /\ tasks' = <<>>
    /\ mainPc' = "loop"
    /\ UNCHANGED <<depends_on, dependents, action, step_policy, max_parallel, permits, results,
                   completed, failed, ready, ctxLock, invoked>>
    /\ UNCHANGED nonDagVars

(***************************************************************************)
(* DagPlanner::execute, the task spawned for one step                      *)
(***************************************************************************)
SetTask(i, t) == [tasks EXCEPT ![i] = t]

\* a task that has returned: its locals are gone
DoneTask(id) == [NewTask(id) EXCEPT !.pc = "done"]

\* line 295: semaphore.acquire()
Acquire(i) ==
    /\ tasks[i].pc = "acquire"
    /\ permits > 0
    /\ permits' = permits - 1
    /\ tasks' = SetTask(i, [tasks[i] EXCEPT !.pc = "check"])
    /\ UNCHANGED <<depends_on, dependents, action, step_policy, max_parallel, results, completed,
                   failed, ready, mainPc, ctxLock, invoked>>
    /\ UNCHANGED nonDagVars

\* the dependencies of the step that are in the failed set
FailedDeps(id) == {d \in dependencies(id) : d \in failed}

\* lines 311-324: look for a failed dependency: the first one the iteration
\* of the HashSet of dependencies yields, which can be any of them
CheckDeps(i) ==
    /\ tasks[i].pc = "check"
    /\ \/ /\ FailedDeps(tasks[i].step_id) = {}
          /\ tasks' = SetTask(i, [tasks[i] EXCEPT !.pc = "exec"])
       \/ \E dep \in FailedDeps(tasks[i].step_id) :
             tasks' = SetTask(i, [tasks[i] EXCEPT !.pc = "skip",
                                                   !.failed_dep = dep])
    /\ UNCHANGED <<depends_on, dependents, action, step_policy, max_parallel, permits, results,
                   completed, failed, ready, mainPc, ctxLock, invoked>>
    /\ UNCHANGED nonDagVars

StepResult(id, st, err) == [step_id |-> id, status |-> st, error |-> err]

\* Vec::push on the results vector
push(v, r) == v (+) SetToBag({r})

\* line 338: format!("Dependency '{}' failed", dep)
dependency_failed(dep) == "Dependency '" \o ToString(dep) \o "' failed"

\* lines 331-343: snapshot the Context under its read lock, drop the guard
\* and build the Skipped result
SkipSnapshot(i) ==
    /\ tasks[i].pc = "skip"
    /\ ctxLock = 0
    /\ tasks' = SetTask(i, [tasks[i] EXCEPT
                   !.pc = "skip_push",
                   !.status = "Skipped",
                   !.error = dependency_failed(tasks[i].failed_dep)])
    /\ UNCHANGED <<depends_on, dependents, action, step_policy, max_parallel, permits, results,
                   completed, failed, ready, mainPc, ctxLock, invoked>>
    /\ UNCHANGED nonDagVars

\* line 344: results.lock().await.push(result)
SkipPush(i) ==
    /\ tasks[i].pc = "skip_push"
    /\ results' = push(results,
                     StepResult(tasks[i].step_id, tasks[i].status, tasks[i].error))
    /\ tasks' = SetTask(i, [tasks[i] EXCEPT !.pc = "skip_mark"])
    /\ UNCHANGED <<depends_on, dependents, action, step_policy, max_parallel, permits, completed,
                   failed, ready, mainPc, ctxLock, invoked>>
    /\ UNCHANGED nonDagVars

\* lines 345-346: insert into failed and return (the permit is dropped)
SkipMark(i) ==
    /\ tasks[i].pc = "skip_mark"
    /\ failed' = failed \cup {tasks[i].step_id}
    /\ permits' = permits + 1
    /\ tasks' = SetTask(i, DoneTask(tasks[i].step_id))
    /\ UNCHANGED <<depends_on, dependents, action, step_policy, max_parallel, results, completed,
                   ready, mainPc, ctxLock, invoked>>
    /\ UNCHANGED nonDagVars

\* lines 355-359: take the Context write lock and call the executor
ExecBegin(i) ==
    /\ tasks[i].pc = "exec"
    /\ HasExecutor(action[tasks[i].step_id])
    /\ ctxLock = 0
    /\ ctxLock' = i
    /\ invoked' = [invoked EXCEPT ![tasks[i].step_id] = @ + 1]
    /\ tasks' = SetTask(i, [tasks[i] EXCEPT !.pc = "in_exec"])
    /\ UNCHANGED <<depends_on, dependents, action, step_policy, max_parallel, permits, results,
                   completed, failed, ready, mainPc>>
    /\ UNCHANGED nonDagVars

\* lines 359-376: the executor returns; Err(e) becomes a Failed result
ExecEnd(i) ==
    /\ tasks[i].pc = "in_exec"
    /\ \E o \in ExecOutcomes :
          tasks' = SetTask(i, [tasks[i] EXCEPT
                     !.pc = "push",
                     !.status = IF o = "passed" THEN "Passed" ELSE "Failed",
                     !.error = IF o = "passed" THEN "none"
                               ELSE IF o = "failed" THEN "step_failed"
                               ELSE "executor_error"])
    /\ ctxLock' = 0
    /\ UNCHANGED <<depends_on, dependents, action, step_policy, max_parallel, permits, results,
                   completed, failed, ready, mainPc, invoked>>
    /\ UNCHANGED nonDagVars

\* lines 377-390: no executor handles the action
NoExecutor(i) ==
    /\ tasks[i].pc = "exec"
    /\ ~HasExecutor(action[tasks[i].step_id])
    /\ ctxLock = 0
    /\ tasks' = SetTask(i, [tasks[i] EXCEPT !.pc = "push",
                                             !.status = "Failed",
                                             !.error = "no_executor"])
    /\ UNCHANGED <<depends_on, dependents, action, step_policy, max_parallel, permits, results,
                   completed, failed, ready, mainPc, ctxLock, invoked>>
    /\ UNCHANGED nonDagVars

\* line 397: results.lock().await.push(result)
Push(i) ==
    /\ tasks[i].pc = "push"
    /\ results' = push(results,
                     StepResult(tasks[i].step_id, tasks[i].status, tasks[i].error))
    /\ tasks' = SetTask(i, [tasks[i] EXCEPT !.pc = "mark"])
    /\ UNCHANGED <<depends_on, dependents, action, step_policy, max_parallel, permits, completed,
                   failed, ready, mainPc, ctxLock, invoked>>
    /\ UNCHANGED nonDagVars

\* lines 399-403: record the step as completed or failed
Mark(i) ==
    /\ tasks[i].pc = "mark"
    /\ IF tasks[i].status = "Passed"
       THEN /\ completed' = completed \cup {tasks[i].step_id}
            /\ UNCHANGED failed
       ELSE /\ failed' = failed \cup {tasks[i].step_id}
            /\ UNCHANGED completed
    /\ tasks' = SetTask(i, [tasks[i] EXCEPT !.pc = "release"])
    /\ UNCHANGED <<depends_on, dependents, action, step_policy, max_parallel, permits, results,
                   ready, mainPc, ctxLock, invoked>>
    /\ UNCHANGED nonDagVars

\* the check with "any" in the place of "all"
any_dep_processed(d) ==
    \E x \in dependencies(d) : x \in completed \/ x \in failed

\* lines 420-423: every dependency of d is in completed or failed
all_deps_processed(d) ==
    \A x \in dependencies(d) : x \in completed \/ x \in failed

\* lines 410-432: the dependents of the step that became ready
dependents_to_add(id) == {d \in dependents[id] : all_deps_processed(d)}

\* lines 410-432, and the end of the task when nothing is to be added
ReleaseDependents(i) ==
    /\ tasks[i].pc = "release"
    /\ LET add == dependents_to_add(tasks[i].step_id)
       IN IF add = {}
          THEN /\ tasks' = SetTask(i, DoneTask(tasks[i].step_id))
               /\ permits' = permits + 1
          ELSE /\ tasks' = SetTask(i, [tasks[i] EXCEPT !.pc = "enqueue",
                                                        !.to_add = add])
               /\ UNCHANGED permits
    /\ UNCHANGED <<depends_on, dependents, action, step_policy, max_parallel, results, completed,
                   failed, ready, mainPc, ctxLock, invoked>>
    /\ UNCHANGED nonDagVars

\* lines 435-438: ready.extend(dependents_to_add), in the order the iteration
\* of the HashSet of dependents gave them (412-428), then the task ends
Enqueue(i) ==
    /\ tasks[i].pc = "enqueue"
    /\ \E to_add \in SetToSeq(tasks[i].to_add) : ready' = ready \o to_add
    /\ permits' = permits + 1
    /\ tasks' = SetTask(i, DoneTask(tasks[i].step_id))
    /\ UNCHANGED <<depends_on, dependents, action, step_policy, max_parallel, results, completed,
                   failed, mainPc, ctxLock, invoked>>
    /\ UNCHANGED nonDagVars

(***************************************************************************)
(* The Context of the scheduler: the executor of a step works on it while  *)
(* the task holds the write lock (lines 356-359).                          *)
(***************************************************************************)
\* the targets of the extraction rules of the steps
DagTargets == {"token"}

\* main.rs 362-371: the Context handed to DagPlanner::execute. A target is
\* "old" when config.variables defines it (context.extend, line 371)
SeededContexts == {[k \in DagTargets |-> v] : v \in {"absent", "old"}}

\* the Context left alone by the extraction
context_not_applied(ctx, targets) == ctx

\* HttpExecutor::apply_extractions: context.set for every extracted value
context_applied(ctx, targets) ==
    [k \in DagTargets |-> IF k \in targets THEN "new" ELSE ctx[k]]

DagCtxIdle ==
    /\ d_context = [k \in DagTargets |-> "absent"]
    /\ d_extracted = [n \in Nodes |-> {}]

DagCtxStart ==
    /\ d_context \in SeededContexts
    /\ d_extracted = [n \in Nodes |-> {}]

\* the Context after a call that applies the extractions whatever it returns
context_after_any_outcome(o, ctx, targets) == context_applied(ctx, targets)

\* the Context after a call of the executor: http.rs applies the extractions
\* on the way to Passed only (780-785); every other return leaves it alone
context_after(o, ctx, targets) ==
    IF o = "passed" THEN context_applied(ctx, targets) ELSE ctx

\* the targets the rules of a step can extract with success: WaitExecutor
\* does not look at the Context (wait.rs 155)
ExtractableBy(a) == IF a = "http_request" THEN SUBSET DagTargets ELSE {{}}

\* lines 359-376: the executor returns, having worked on the Context under
\* the write lock; Err(e) becomes a Failed result
ExecEndContext(i) ==
    /\ tasks[i].pc = "in_exec"
    /\ \E o \in ExecOutcomes, targets \in ExtractableBy(action[tasks[i].step_id]) :
          /\ tasks' = SetTask(i, [tasks[i] EXCEPT
                         !.pc = "push",
                         !.status = IF o = "passed" THEN "Passed" ELSE "Failed",
                         !.error = IF o = "passed" THEN "none"
                                   ELSE IF o = "failed" THEN "step_failed"
                                   ELSE "executor_error"])
          /\ d_context' = context_after(o, d_context, targets)
          /\ d_extracted' = [d_extracted EXCEPT ![tasks[i].step_id] =
                                IF o = "passed" THEN targets ELSE {}]
    /\ ctxLock' = 0
    /\ UNCHANGED <<depends_on, dependents, action, step_policy, max_parallel, permits, results,
                   completed, failed, ready, mainPc, invoked>>
    /\ UNCHANGED nonSchedulerVars

(***************************************************************************)
(* The locks of DagPlanner::execute: the registries nodes, completed and   *)
(* failed (RwLock), ready and results (Mutex), the Context (RwLock) and    *)
(* the semaphore, in the order in which the main loop and the task of a    *)
(* step take and drop their guards. A Mutex guard is a guard of mode       *)
(* "write", a permit of the semaphore a guard of mode "permit".            *)
(***************************************************************************)
LockTasks == 1..NumLockTasks
LockProcs == 0..NumLockTasks

RegistryLocks == {"nodes", "completed", "failed", "ready"}

\* lines 227-232: Semaphore::new(max_parallel), run with RUNNER_MAX_PARALLEL=2
LockPermits == 2

Guard(l, m) == [lock |-> l, mode |-> m]

\* a step of the code: a guard taken, or the guards of some locks dropped
Take(l, m, next) == [op |-> "take", locks |-> {l}, mode |-> m, next |-> next]
Drop(ls, next) == [op |-> "drop", locks |-> ls, mode |-> "none", next |-> next]

\* the main loop, lines 252-273 and 446-448
MainLoopCode ==
    [m_ready     |-> Take("ready", "write", {"m_take"}),               \* 256
     m_take      |-> Drop({"ready"}, {"m_completed", "m_spawn"}),      \* 258
     m_completed |-> Take("completed", "read", {"m_nodes"}),           \* 262
     m_nodes     |-> Take("nodes", "read", {"m_failed"}),              \* 263
     m_failed    |-> Take("failed", "read", {"m_compared"}),           \* 266
     m_compared  |-> Drop({"failed"}, {"m_break", "m_sleep"}),         \* 266
     m_break     |-> Drop({"completed", "nodes"}, {"m_results"}),      \* 267
     m_sleep     |-> Drop({"completed", "nodes"}, {"m_ready"}),        \* 271-272
     m_results   |-> Take("results", "write", {"m_return"}),           \* 447
     m_return    |-> Drop({"results"}, {"m_done"})]                    \* 448

\* the task of a step, lines 292-439
TaskCode ==
    [t_permit        |-> Take("semaphore", "permit", {"t_nodes"}),     \* 295
     t_nodes         |-> Take("nodes", "read", {"t_step"}),            \* 299
     t_step          |-> Drop({"nodes"}, {"t_dep_failed"}),            \* 301
     t_dep_failed    |-> Take("failed", "read", {"t_dep_nodes"}),      \* 312
     t_dep_nodes     |-> Take("nodes", "read", {"t_dep_end"}),         \* 313
     t_dep_end       |-> Drop({"failed", "nodes"},                     \* 324
                              {"t_skip_ctx", "t_exec_ctx", "t_noexec_ctx"}),
     t_skip_ctx      |-> Take("context", "read", {"t_skip_snap"}),     \* 331
     t_skip_snap     |-> Drop({"context"}, {"t_skip_results"}),        \* 333
     t_skip_results  |-> Take("results", "write", {"t_skip_pushed"}),  \* 344
     t_skip_pushed   |-> Drop({"results"}, {"t_skip_failed"}),         \* 344
     t_skip_failed   |-> Take("failed", "write", {"t_skip_marked"}),   \* 345
     t_skip_marked   |-> Drop({"failed"}, {"t_return"}),               \* 345
     t_exec_ctx      |-> Take("context", "write", {"t_executed"}),     \* 356
     t_executed      |-> Drop({"context"}, {"t_results"}),             \* 376
     t_noexec_ctx    |-> Take("context", "read", {"t_noexec_snap"}),   \* 379
     t_noexec_snap   |-> Drop({"context"}, {"t_results"}),             \* 390
     t_results       |-> Take("results", "write", {"t_pushed"}),       \* 397
     t_pushed        |-> Drop({"results"}, {"t_completed", "t_failed"}), \* 397
     t_completed     |-> Take("completed", "write", {"t_marked"}),     \* 400
     t_failed        |-> Take("failed", "write", {"t_marked"}),        \* 402
     t_marked        |-> Drop({"completed", "failed"}, {"t_rel_nodes"}), \* 400-403
     t_rel_nodes     |-> Take("nodes", "read", {"t_rel_completed"}),   \* 411
     t_rel_completed |-> Take("completed", "read", {"t_rel_failed"}),  \* 412
     t_rel_failed    |-> Take("failed", "read", {"t_rel_end"}),        \* 413
     t_rel_end       |-> Drop({"nodes", "completed", "failed"},        \* 432
                              {"t_ready", "t_return"}),
     t_ready         |-> Take("ready", "write", {"t_enqueued"}),       \* 436
     t_enqueued      |-> Drop({"ready"}, {"t_return"}),                \* 438
     t_return        |-> Drop({"semaphore"}, {"t_end"})]               \* 346, 439

\* the step of the code a process is at, if it is at one
HasCode(p) == lpc[p] \in (IF p = 0 THEN DOMAIN MainLoopCode ELSE DOMAIN TaskCode)
CodeAt(p) == IF p = 0 THEN MainLoopCode[lpc[p]] ELSE TaskCode[lpc[p]]

RECURSIVE HoldersOf(_, _)
\* the guards held on a lock by the processes p..NumLockTasks
HoldersOf(l, p) ==
    IF p > NumLockTasks THEN {}
    ELSE {<<p, holds[p][i].mode>> :
             i \in {j \in 1..Len(holds[p]) : holds[p][j].lock = l}}
         \cup HoldersOf(l, p + 1)

\* RwLock::read waits for the writer, RwLock::write and Mutex::lock for
\* everyone, Semaphore::acquire for a free permit
CanTake(l, m) ==
    IF m = "read" THEN \A h \in HoldersOf(l, 0) : h[2] = "read"
    ELSE IF m = "permit" THEN Cardinality(HoldersOf(l, 0)) < LockPermits
    ELSE HoldersOf(l, 0) = {}

RECURSIVE without(_, _)
\* guards that are never dropped
without_nothing(gs, ls) == gs

\* the guards left when the guards of the locks ls are dropped
without(gs, ls) ==
    IF gs = <<>> THEN <<>>
    ELSE IF Head(gs).lock \in ls THEN without(Tail(gs), ls)
    ELSE <<Head(gs)>> \o without(Tail(gs), ls)

LockIdle ==
    /\ lpc = <<>>
    /\ holds = <<>>

\* DagPlanner::execute is entered: no task yet
LockStart ==
    /\ lpc = [p \in LockProcs |-> IF p = 0 THEN "m_ready" ELSE "t_idle"]
    /\ holds = [p \in LockProcs |-> <<>>]

\* lock().await, read().await, write().await
LockTake(p) ==
    /\ HasCode(p)
    /\ CodeAt(p).op = "take"
    /\ \E l \in CodeAt(p).locks :
          /\ CanTake(l, CodeAt(p).mode)
          /\ holds' = [holds EXCEPT ![p] = Append(@, Guard(l, CodeAt(p).mode))]
    /\ \E n \in CodeAt(p).next : lpc' = [lpc EXCEPT ![p] = n]
    /\ UNCHANGED nonLockVars

\* the guards go out of scope
LockDrop(p) ==
    /\ HasCode(p)
    /\ CodeAt(p).op = "drop"
    /\ holds' = [holds EXCEPT ![p] = without(@, CodeAt(p).locks)]
    /\ \E n \in CodeAt(p).next : lpc' = [lpc EXCEPT ![p] = n]
    /\ UNCHANGED nonLockVars

\* lines 278-293: the tasks of the wave are spawned
LockSpawn ==
    /\ lpc[0] = "m_spawn"
    /\ \E wave \in SUBSET LockTasks \ {{}} :
          lpc' = [p \in LockProcs |-> IF p = 0 THEN "m_join"
                                      ELSE IF p \in wave THEN "t_permit"
                                      ELSE lpc[p]]
    /\ UNCHANGED holds
    /\ UNCHANGED nonLockVars

\* line 443: every task of the wave is over
LockJoin ==
    /\ lpc[0] = "m_join"
    /\ \A p \in LockTasks : lpc[p] \in {"t_idle", "t_end"}
    /\ lpc' = [lpc EXCEPT ![0] = "m_ready"]
    /\ UNCHANGED holds
    /\ UNCHANGED nonLockVars

(***************************************************************************)
(* Reading the results vector                                              *)
(***************************************************************************)
\* the results pushed for step n
ResultsOf(n) == {r \in BagToSet(results) : r.step_id = n}

RECURSIVE SumCopies(_)
SumCopies(S) ==
    IF S = {} THEN 0
    ELSE LET r == CHOOSE x \in S : TRUE
         IN CopiesIn(r, results) + SumCopies(S \ {r})

\* how many results the vector holds for step n
ResultCount(n) == SumCopies(ResultsOf(n))

\* step n has a result with this status
HasStatus(n, st) == \E r \in ResultsOf(n) : r.status = st

\* the scheduler has nothing running and nothing queued
Settled == mainPc \in {"loop", "sleeping", "done"} /\ ready = <<>>

(***************************************************************************)
(* The step executed by the retry loops                                    *)
(***************************************************************************)
\* largest RecoveryPolicy.max_attempts tried (the field is a u32, 0 included)
MaxAttemptsBound == 3
\* largest number of assertions of the step
MaxAssertions == 2
\* largest number of extraction rules of the step handed to the retry loops
MaxRetriedExtractions == 1
\* largest number of extraction rules of the step whose extractions are
\* followed rule by rule: two rules can have the same target
MaxExtractions == 2

\* RecoveryPolicy.strategy values tried: the three documented ones, the alias
\* and the spellings RecoveryStrategy::from_str accepts, and an unknown one
Strategies ==
    {"retry", "fail_fast", "failfast", "ignore", "Retry", "IGNORE", "exponential"}

\* str::to_lowercase on the strategy values
to_lowercase(s) ==
    CASE s = "Retry" -> "retry"
      [] s = "IGNORE" -> "ignore"
      [] OTHER -> s

\* RecoveryStrategy::from_str
from_str(s) ==
    CASE to_lowercase(s) = "retry" -> "Retry"
      [] to_lowercase(s) \in {"fail_fast", "failfast"} -> "FailFast"
      [] to_lowercase(s) = "ignore" -> "Ignore"
      [] OTHER -> "FailFast"

\* main.rs 517-526: max_attempts and strategy, with the defaults for None
max_attempts ==
    IF recovery_policy = NoPolicy THEN 1 ELSE recovery_policy.max_attempts
strategy ==
    IF recovery_policy = NoPolicy THEN "fail_fast" ELSE recovery_policy.strategy

\* RetryExecutor::new, RetryExecutor::default for a step without a policy
RetryExecutorPolicy ==
    IF recovery_policy = NoPolicy
    THEN [strategy |-> "fail_fast", max_attempts |-> 1]
    ELSE recovery_policy

(***************************************************************************)
(* The Context: variable name -> value. A value is "old" (set before the   *)
(* step: by execute_plan, by config.variables or by an earlier step),      *)
(* "new" (extracted from this step's response) or "absent" (no such key).  *)
(***************************************************************************)
\* the variable names tried: one execute_plan always sets, one it does not
Targets == {"base_url", "token"}

\* Context::new
EmptyContext == [k \in Targets |-> "absent"]

\* main.rs 362-371: base_url is set; token is there or not
InitialContexts ==
    {[k \in Targets |-> IF k = "base_url" THEN "old" ELSE v] :
        v \in {"absent", "old"}}

(***************************************************************************)
(* HttpExecutor::execute, from the response on                             *)
(***************************************************************************)
\* what the executor meets: an error before the request is sent (missing
\* parameter, unknown variable), a network error, or a response, given by
\* the truth of every assertion and the success of every extraction rule
Responses ==
    {[kind |-> k, asserts |-> <<>>, extracts |-> <<>>] :
        k \in {"exec_error", "network_error"}}
    \cup {[kind |-> "response", asserts |-> a, extracts |-> e] :
            a \in [1..Len(assertions) -> BOOLEAN],
            e \in [1..Len(extract) -> BOOLEAN]}

\* HttpExecutor::validate_assertions: the first assertion of a known type that
\* fails (0 for None); an unknown assertion type is skipped
RECURSIVE validate_assertions(_, _)
validate_assertions(truth, i) ==
    IF i > Len(assertions) THEN 0
    ELSE IF assertions[i].known /\ ~truth[i] THEN i
    ELSE validate_assertions(truth, i + 1)

\* Extractor::process, first component: one ExtractionResult per rule, with
\* the rule's target and critical flag
process(succ) ==
    [j \in 1..Len(extract) |->
        [target |-> extract[j].target, success |-> succ[j],
         is_critical |-> extract[j].critical]]

\* Extractor::process, second component: the targets of the rules that succeeded
extracted_values(succ) ==
    {extract[j].target : j \in {k \in 1..Len(extract) : succ[k]}}

\* context.set of the rules' targets whether they succeeded or not
apply_all_extractions(ctx, succ) ==
    [k \in Targets |->
        IF k \in {extract[j].target : j \in 1..Len(extract)} THEN "new"
        ELSE ctx[k]]

\* HttpExecutor::apply_extractions: context.set for every extracted value
apply_extractions(ctx, succ) ==
    [k \in Targets |-> IF k \in extracted_values(succ) THEN "new" ELSE ctx[k]]

\* the keys of a context (of a snapshot of it)
Keys(ctx) == {k \in DOMAIN ctx : ctx[k] # "absent"}

\* Extractor::has_critical_failure (ExtractionResult::should_abort)
has_critical_failure(rs) ==
    \E j \in 1..Len(rs) : ~rs[j].success /\ rs[j].is_critical

\* Result<StepResult>. Three fields are history, not fields of StepResult:
\* ok (Ok or Err), evaluated_true (the response made every assertion of a known
\* type true) and, for Err, the two snapshots, which hold the Context as the
\* call found it and left it. attempt is the literal of http.rs, 0 where the
\* literal that builds the result names no attempt.
ExecErr(ctx) ==
    [ok |-> FALSE, status |-> "none", error |-> "exec_error", attempt |-> 0,
     context_before |-> ctx, context_after |-> ctx,
     extractions |-> <<>>, evaluated_true |-> FALSE]

\* http.rs 811-832: the request failed (network, DNS, timeout)
NetworkError(ctx) ==
    [ok |-> TRUE, status |-> "Failed", error |-> "network_error", attempt |-> 1,
     context_before |-> ctx, context_after |-> ctx,
     extractions |-> <<>>, evaluated_true |-> FALSE]

\* the failure built after the extraction rules were applied
FailedAssertionExtracting(ctx, resp, f) ==
    [ok |-> TRUE, status |-> "Failed",
     error |-> IF f = 1 THEN "assertion_1" ELSE "assertion_n", attempt |-> 1,
     context_before |-> ctx,
     context_after |-> apply_extractions(ctx, resp.extracts),
     extractions |-> process(resp.extracts), evaluated_true |-> FALSE]

\* http.rs 758-778: assertion f failed; Failed is returned at once
FailedAssertion(ctx, resp, f) ==
    [ok |-> TRUE, status |-> "Failed",
     error |-> IF f = 1 THEN "assertion_1" ELSE "assertion_n", attempt |-> 1,
     context_before |-> ctx, context_after |-> ctx,
     extractions |-> <<>>, evaluated_true |-> FALSE]

\* http.rs 780-809: the extraction rules are applied and Passed is returned
PassedResult(ctx, resp) ==
    [ok |-> TRUE, status |-> "Passed", error |-> "none", attempt |-> 1,
     context_before |-> ctx,
     context_after |-> apply_extractions(ctx, resp.extracts),
     extractions |-> process(resp.extracts),
     evaluated_true |-> \A i \in 1..Len(assertions) :
                           assertions[i].known => resp.asserts[i]]

HttpExecute(resp, ctx) ==
    IF resp.kind = "exec_error" THEN ExecErr(ctx)
    ELSE IF resp.kind = "network_error" THEN NetworkError(ctx)
    ELSE LET f == validate_assertions(resp.asserts, 1)
         IN IF f # 0 THEN FailedAssertion(ctx, resp, f)
            ELSE PassedResult(ctx, resp)

\* the results the k-th call of the executor can give: what the history holds
\* if the other loop made its k-th call already, any response otherwise
CallResults(k) ==
    IF k <= Len(outcomes) THEN {outcomes[k]}
    ELSE {HttpExecute(r, context) : r \in Responses}

Record(k, r) == IF k <= Len(outcomes) THEN outcomes ELSE Append(outcomes, r)

NoResult ==
    [ok |-> FALSE, status |-> "none", error |-> "none", attempt |-> 0,
     context_before |-> EmptyContext, context_after |-> EmptyContext,
     extractions |-> <<>>, evaluated_true |-> FALSE]

RetryIdle ==
    /\ depends_on = [n \in Nodes |-> {}]
    /\ dependents = [n \in Nodes |-> {}]
    /\ action = [n \in Nodes |-> "http_request"]
    /\ step_policy = [n \in Nodes |-> NoPolicy]
    /\ max_parallel = 0
    /\ permits = 0
    /\ results = EmptyBag
    /\ completed = {}
    /\ failed = {}
    /\ ready = <<>>
    /\ mainPc = "idle"
    /\ tasks = <<>>
    /\ ctxLock = 0
    /\ invoked = [n \in Nodes |-> 0]

DagIdle ==
    /\ recovery_policy = NoPolicy
    /\ assertions = <<>>
    /\ extract = <<>>
    /\ context = EmptyContext
    /\ outcomes = <<>>
    /\ mPc = "idle"
    /\ attempt = 0
    /\ mResult = NoResult
    /\ mInvoked = 0
    /\ rPc = "idle"
    /\ rAttempt = 0
    /\ rResult = [kind |-> "none", error |-> "none"]
    /\ rInvoked = 0

SeqsUpTo(S, n) == UNION {[1..k -> S] : k \in 0..n}

\* Step.extract: at most n rules, each critical or not, with its target
ExtractionRules(n) == SeqsUpTo([critical : BOOLEAN, target : Targets], n)

\* a step with many extraction rules and the policies that make one call of
\* the executor: none, and ignore
ExtractStepInit ==
    /\ recovery_policy \in
          {NoPolicy, [strategy |-> "ignore", max_attempts |-> 1]}
    /\ assertions \in SeqsUpTo([known : BOOLEAN], MaxAssertions)
    /\ extract \in ExtractionRules(MaxExtractions)
    /\ context \in InitialContexts
    /\ outcomes = <<>>
    /\ mPc = "attempt"
    /\ attempt = 0
    /\ mResult = NoResult
    /\ mInvoked = 0
    /\ rPc = "start"
    /\ rAttempt = 0
    /\ rResult = [kind |-> "none", error |-> "none"]
    /\ rInvoked = 0

RetryStepInit ==
    /\ recovery_policy \in
          {NoPolicy} \cup [strategy : Strategies, max_attempts : 0..MaxAttemptsBound]
    /\ assertions \in SeqsUpTo([known : BOOLEAN], MaxAssertions)
    /\ extract \in ExtractionRules(MaxRetriedExtractions)
    /\ context \in InitialContexts
    /\ outcomes = <<>>
    /\ mPc = "attempt"
    /\ attempt = 0
    /\ mResult = NoResult
    /\ mInvoked = 0
    /\ rPc = "start"
    /\ rAttempt = 0
    /\ rResult = [kind |-> "none", error |-> "none"]
    /\ rInvoked = 0

(***************************************************************************)
(* execute_step_with_retry (main.rs 511-606)                               *)
(***************************************************************************)
\* the test with the bound off by one
should_return_late(strat, att, max) == strat # "retry" \/ att > max

\* the test without the strategy
should_return_any_strategy(strat, att, max) == att >= max

\* main.rs 565 and 587: no further attempt
should_return(strat, att, max) == strat # "retry" \/ att >= max

\* the failure reported as Passed with its error kept
IgnoredKeepingError(r) ==
    [ok |-> TRUE, status |-> "Passed", error |-> r.error, attempt |-> 0,
     context_before |-> r.context_before, context_after |-> r.context_after,
     extractions |-> r.extractions, evaluated_true |-> r.evaluated_true]

\* main.rs 554-562 and 576-584: the failure reported as Passed; for Err(e) the
\* snapshots are the ones taken at lines 544 and 573 and extractions is None
Ignored(r) ==
    [ok |-> TRUE, status |-> "Passed", error |-> "none", attempt |-> 0,
     context_before |-> r.context_before, context_after |-> r.context_after,
     extractions |-> r.extractions, evaluated_true |-> r.evaluated_true]

\* main.rs 588-596: the Failed result built from Err(e)
FromErr(r) ==
    [ok |-> TRUE, status |-> "Failed", error |-> r.error, attempt |-> 0,
     context_before |-> r.context_before, context_after |-> r.context_after,
     extractions |-> <<>>, evaluated_true |-> FALSE]

\* main.rs 540-599: one turn of the loop, up to the return or the backoff
MainAttempt ==
    /\ mPc = "attempt"
    /\ \E r \in CallResults(mInvoked + 1) :
          /\ outcomes' = Record(mInvoked + 1, r)
          /\ context' = r.context_after
          /\ attempt' = attempt + 1
          /\ mInvoked' = mInvoked + 1
          /\ IF r.ok /\ r.status = "Passed"
             THEN mPc' = "returned" /\ mResult' = r
             ELSE IF strategy = "ignore"
             THEN mPc' = "returned" /\ mResult' = Ignored(r)
             ELSE IF should_return(strategy, attempt + 1, max_attempts)
             THEN /\ mPc' = "returned"
                  /\ mResult' = IF r.ok THEN r ELSE FromErr(r)
             ELSE mPc' = "sleeping" /\ UNCHANGED mResult
    /\ UNCHANGED <<recovery_policy, assertions, extract, rPc, rAttempt,
                   rResult, rInvoked>>
    /\ UNCHANGED nonRetryVars

\* main.rs 601-605: sleep the backoff, then loop
MainBackoff ==
    /\ mPc = "sleeping"
    /\ mPc' = "attempt"
    /\ UNCHANGED <<recovery_policy, assertions, extract, context, outcomes,
                   attempt, mResult, mInvoked, rPc, rAttempt, rResult, rInvoked>>
    /\ UNCHANGED nonRetryVars

(***************************************************************************)
(* RetryExecutor::execute (retry/mod.rs 161-258); operation() is one call  *)
(* of the executor, Ok when the step passed and Err when it did not        *)
(***************************************************************************)
\* retry/mod.rs 224: the attempts are used up
exhausted(att, max) == att >= max

\* retry/mod.rs 171-204: dispatch on the strategy; the retry arm starts at 1
RxStart ==
    /\ rPc = "start"
    /\ rPc' = "attempt"
    /\ rAttempt' = 1
    /\ UNCHANGED <<recovery_policy, assertions, extract, context, outcomes,
                   mPc, attempt, mResult, mInvoked, rResult, rInvoked>>
    /\ UNCHANGED nonRetryVars

\* retry/mod.rs 176-179, 186-197, 209-243: one call of operation()
RxAttempt ==
    /\ rPc = "attempt"
    /\ \E r \in CallResults(rInvoked + 1) :
          LET strat == from_str(RetryExecutorPolicy.strategy)
              okay == r.ok /\ r.status = "Passed"
          IN /\ outcomes' = Record(rInvoked + 1, r)
             /\ rInvoked' = rInvoked + 1
             /\ IF okay
                THEN /\ rPc' = "returned"
                     /\ rResult' = [kind |-> "ok_some", error |-> "none"]
                ELSE IF strat = "FailFast"
                THEN /\ rPc' = "returned"
                     /\ rResult' = [kind |-> "err", error |-> r.error]
                ELSE IF strat = "Ignore"
                THEN /\ rPc' = "returned"
                     /\ rResult' = [kind |-> "ok_none", error |-> "none"]
                ELSE IF exhausted(rAttempt, RetryExecutorPolicy.max_attempts)
                THEN /\ rPc' = "returned"
                     /\ rResult' = [kind |-> "err", error |-> r.error]
                ELSE rPc' = "sleeping" /\ UNCHANGED rResult
    /\ UNCHANGED <<recovery_policy, assertions, extract, context, mPc,
                   attempt, mResult, mInvoked, rAttempt>>
    /\ UNCHANGED nonRetryVars

\* retry/mod.rs 246-252: sleep, then attempt += 1
RxBackoff ==
    /\ rPc = "sleeping"
    /\ rPc' = "attempt"
    /\ rAttempt' = rAttempt + 1
    /\ UNCHANGED <<recovery_policy, assertions, extract, context, outcomes,
                   mPc, attempt, mResult, mInvoked, rResult, rInvoked>>
    /\ UNCHANGED nonRetryVars

(***************************************************************************)
(* The sleeps of the two retry loops under strategy = retry. The f64       *)
(* backoff_factor is a fraction <<numerator, denominator>> with a          *)
(* denominator that is a power of 2, so that the products below are exact  *)
(* in f64; "as u64" drops the fractional part.                             *)
(***************************************************************************)
\* largest RecoveryPolicy.max_attempts and backoff_ms of the sleeps followed
MaxBackoffAttempts == 4
MaxBackoffMs == 3

\* RecoveryPolicy.backoff_factor values tried: 0.5, 1.0, 1.5, 2.0
BackoffFactors == {<<1, 2>>, <<1, 1>>, <<3, 2>>, <<2, 1>>}

RetryPolicies ==
    [max_attempts : 0..MaxBackoffAttempts, backoff_ms : 0..MaxBackoffMs,
     backoff_factor : BackoffFactors]

\* main.rs 601: (backoff_ms as f64 * backoff_factor.powi(attempt as i32 - 1)) as u64
backoff(policy, att) ==
    (policy.backoff_ms * policy.backoff_factor[1] ^ (att - 1))
        \div (policy.backoff_factor[2] ^ (att - 1))

\* retry/mod.rs 251-252: (current_backoff as f64 * backoff_factor) as u64
next_backoff(current_backoff, policy) ==
    (current_backoff * policy.backoff_factor[1]) \div policy.backoff_factor[2]

BackoffIdle ==
    /\ bk_policy = [max_attempts |-> 0, backoff_ms |-> 0, backoff_factor |-> <<1, 1>>]
    /\ bk_main = [pc |-> "idle", attempt |-> 0, sleeps |-> <<>>]
    /\ bk_rx = [pc |-> "idle", attempt |-> 0, current_backoff |-> 0, sleeps |-> <<>>]

\* main.rs 537-539 and retry/mod.rs 205-206: both loops are entered
BackoffStart ==
    /\ bk_policy \in RetryPolicies
    /\ bk_main = [pc |-> "loop", attempt |-> 0, sleeps |-> <<>>]
    /\ bk_rx = [pc |-> "loop", attempt |-> 1,
                current_backoff |-> bk_policy.backoff_ms, sleeps |-> <<>>]

\* main.rs 539-605: one turn of the loop of execute_step_with_retry; the
\* executor passes, or it fails and the loop returns or sleeps
MainTurn ==
    /\ bk_main.pc = "loop"
    /\ LET att == bk_main.attempt + 1
       IN \E ok \in BOOLEAN :
             bk_main' =
                IF ok \/ att >= bk_policy.max_attempts
                THEN [bk_main EXCEPT !.pc = "returned", !.attempt = att]
                ELSE [bk_main EXCEPT !.attempt = att,
                                     !.sleeps = Append(@, backoff(bk_policy, att))]
    /\ UNCHANGED <<bk_policy, bk_rx>>
    /\ UNCHANGED nonBackoffVars

\* retry/mod.rs 209-254: one turn of the loop of RetryExecutor::execute
RxTurn ==
    /\ bk_rx.pc = "loop"
    /\ \E ok \in BOOLEAN :
          bk_rx' =
             IF ok \/ exhausted(bk_rx.attempt, bk_policy.max_attempts)
             THEN [bk_rx EXCEPT !.pc = "returned"]
             ELSE [bk_rx EXCEPT
                      !.sleeps = Append(@, bk_rx.current_backoff),
                      !.current_backoff = next_backoff(@, bk_policy),
                      !.attempt = @ + 1]
    /\ UNCHANGED <<bk_policy, bk_main>>
    /\ UNCHANGED nonBackoffVars

(***************************************************************************)
(* RetryCounter (limits/mod.rs 264-295): callers that each call            *)
(* try_increment once, concurrently. The call is an atomic fetch_add on    *)
(* the AtomicU32 followed by the comparison with the limit.                *)
(***************************************************************************)
\* number of concurrent callers and largest limit tried
NumCallers == 3
MaxLimit == 3

Callers == 1..NumCallers

\* try_increment, line 284, with a call at the limit let through
within_limit_inclusive(current, limit) == current <= limit

\* try_increment, line 284: current < self.limit
within_limit(current, limit) == current < limit

\* AtomicU32::fetch_add(1): the new value (it wraps around after 2^32 - 1,
\* which no number of calls tried here reaches)
fetch_add(n) == n + 1

\* RetryCounter::current
current == rc_count

CounterIdle ==
    /\ rc_count = 0
    /\ rc_limit = 0
    /\ rc_calls = <<>>

\* RetryCounter::new(limit)
CounterStart ==
    /\ rc_count = 0
    /\ rc_limit \in 0..MaxLimit
    /\ rc_calls = [p \in Callers |-> [pc |-> "idle", current |-> 0, result |-> FALSE]]

\* try_increment, line 283: let current = self.count.fetch_add(1, SeqCst)
FetchAdd(p) ==
    /\ rc_calls[p].pc = "idle"
    /\ rc_count' = fetch_add(rc_count)
    /\ rc_calls' = [rc_calls EXCEPT ![p] = [@ EXCEPT !.pc = "fetched",
                                                     !.current = rc_count]]
    /\ UNCHANGED rc_limit
    /\ UNCHANGED nonCounterVars

\* try_increment, line 284: the result is returned
TryIncrementReturn(p) ==
    /\ rc_calls[p].pc = "fetched"
    /\ rc_calls' = [rc_calls EXCEPT ![p] =
                      [@ EXCEPT !.pc = "returned",
                                !.result = within_limit(rc_calls[p].current,
                                                       rc_limit)]]
    /\ UNCHANGED <<rc_count, rc_limit>>
    /\ UNCHANGED nonCounterVars

(***************************************************************************)
(* Context: set, get, interpolate_str, resolve_token (context/mod.rs).     *)
(* A text is a sequence of pieces; a token is the text between "${" and    *)
(* "}", a prefix being a piece of its own.                                 *)
(***************************************************************************)
\* largest number of Context::set calls made on one Context
MaxSets == 2
\* largest number of extend calls made on a Context
MaxExtends == 1

\* tokens that match INTERPOLATION_RE: plain names, the name of a dynamic
\* function, and names that start with each of the prefixes
Tokens ==
    {<<"token">>, <<"timestamp">>, <<"env:", "HOME">>, <<"ENV_", "HOME">>,
     <<"base64:", "abc">>, <<"sha256:", "abc">>}

\* serde_json::Value: a String holds its characters, the others their JSON text
JsonValues ==
    {[type |-> "String", v |-> <<"abc">>], [type |-> "String", v |-> <<"42">>],
     [type |-> "Number", v |-> <<"42">>], [type |-> "Null", v |-> <<"null">>]}

Null == [type |-> "Null", v |-> <<"null">>]

\* the process environment: HOME is set or not
Environments == {[HOME |-> <<"/root">>], [HOME |-> <<>>]}

\* Value::to_string (Display): the JSON text, a String in quotes
to_string(value) ==
    IF value.type = "String" THEN <<"\"">> \o value.v \o <<"\"">> ELSE value.v

\* resolve_token 398-403 with every value rendered as JSON text
value_text_json(value) == to_string(value)

\* resolve_token 398-403: a String as it is, other values as JSON text
value_text(value) ==
    IF value.type = "String" THEN value.v ELSE to_string(value)

\* HashMap::get on Context.variables; a key never inserted is not in the map
Absent == [type |-> "absent", v |-> <<>>]

\* Context::new
NewContext == [k \in Tokens |-> Absent]

\* Context::set
set(vars_map, key, value) == [vars_map EXCEPT ![key] = value]

\* the maps handed to Context::extend: token: "abc", timestamp: 42, both or
\* no entry; a key that is not in the map is Absent
ExtendEntries ==
    {m \in [Tokens -> {[type |-> "String", v |-> <<"abc">>],
                       [type |-> "Number", v |-> <<"42">>], Absent}] :
        /\ m[<<"token">>].type \in {"String", "absent"}
        /\ m[<<"timestamp">>].type \in {"Number", "absent"}
        /\ \A k \in Tokens \ {<<"token">>, <<"timestamp">>} : m[k] = Absent}

\* Context::extend: every entry is inserted
extend(vars_map, entries) ==
    [k \in DOMAIN vars_map |->
        IF entries[k] # Absent THEN entries[k] ELSE vars_map[k]]

\* Context::get: Some(value) or None
get(vars_map, key) ==
    IF vars_map[key] # Absent
    THEN [ok |-> TRUE, value |-> vars_map[key], text |-> <<>>]
    ELSE [ok |-> FALSE, value |-> Null, text |-> <<>>]

\* the dynamic functions of resolve_token 315-339
DynamicFunctions ==
    {"random_uuid", "timestamp", "timestamp_ms", "now", "now_local",
     "random_int"}

\* str::strip_prefix
has_prefix(token, p) == Len(token) >= 1 /\ token[1] = p
strip_prefix(token, p) == Tail(token)

Ok(text) == [ok |-> TRUE, value |-> Null, text |-> text]
Err(what) == [ok |-> FALSE, value |-> Null, text |-> <<what>>]

\* std::env::var
env_var(env, name) ==
    IF name = <<"HOME">> /\ env.HOME # <<>> THEN Ok(env.HOME)
    ELSE Err("env var missing")

\* a template is a sequence of segments: literal text or one placeholder
Literal(text) == [placeholder |-> FALSE, s |-> text]
Placeholder(token) == [placeholder |-> TRUE, s |-> token]

\* interpolate_str and resolve_token; segments_from is the loop of
\* interpolate_str from the i-th segment on
RECURSIVE resolve_token(_, _, _)
RECURSIVE segments_from(_, _, _, _)
interpolate_str(vars_map, env, input) == segments_from(vars_map, env, input, 1)

segments_from(vars_map, env, input, i) ==
    IF i > Len(input) THEN Ok(<<>>)
    ELSE LET here == IF input[i].placeholder
                     THEN resolve_token(vars_map, env, input[i].s)
                     ELSE Ok(input[i].s)
         IN IF ~here.ok THEN here
            ELSE LET rest == segments_from(vars_map, env, input, i + 1)
                 IN IF ~rest.ok THEN rest ELSE Ok(here.text \o rest.text)

resolve_token(vars_map, env, token) ==
    IF Len(token) = 1 /\ token[1] \in DynamicFunctions
    THEN Ok(<<"value of ", token[1]>>)
    ELSE IF has_prefix(token, "env:")
    THEN env_var(env, strip_prefix(token, "env:"))
    ELSE IF has_prefix(token, "base64:")
    THEN LET inner == interpolate_str(vars_map, env,
                          <<Literal(strip_prefix(token, "base64:"))>>)
         IN Ok(<<"base64 of ">>
               \o (IF inner.ok THEN inner.text
                   ELSE strip_prefix(token, "base64:")))
    ELSE IF has_prefix(token, "sha256:")
    THEN LET inner == interpolate_str(vars_map, env,
                          <<Literal(strip_prefix(token, "sha256:"))>>)
         IN Ok(<<"sha256 of ">>
               \o (IF inner.ok THEN inner.text
                   ELSE strip_prefix(token, "sha256:")))
    ELSE IF has_prefix(token, "ENV_")
    THEN env_var(env, strip_prefix(token, "ENV_"))
    ELSE IF token \in DOMAIN vars_map /\ vars_map[token] # Absent
    THEN Ok(value_text(vars_map[token]))
    ELSE Err("not found")

NoQuery == [op |-> "none", key |-> <<>>, out |-> Err("none")]
NoSet == [key |-> <<>>, value |-> Null]

CtxIdle ==
    /\ variables = NewContext
    /\ environment = [HOME |-> <<>>]
    /\ set_count = 0
    /\ last_set = NoSet
    /\ extend_count = 0
    /\ extended = {}
    /\ query = NoQuery

CtxStart ==
    /\ variables = NewContext
    /\ environment \in Environments
    /\ set_count = 0
    /\ last_set = NoSet
    /\ extend_count = 0
    /\ extended = {}
    /\ query = NoQuery

\* ctx.set(key, value)
CtxSet ==
    /\ set_count < MaxSets
    /\ \E key \in Tokens, value \in JsonValues :
          /\ variables' = set(variables, key, value)
          /\ last_set' = [key |-> key, value |-> value]
    /\ set_count' = set_count + 1
    /\ extended' = {}
    /\ query' = NoQuery
    /\ UNCHANGED <<environment, extend_count>>
    /\ UNCHANGED nonCtxVars

\* ctx.extend(&entries)
CtxExtend ==
    /\ extend_count < MaxExtends
    /\ \E entries \in ExtendEntries :
          /\ variables' = extend(variables, entries)
          /\ extended' = extended \cup {k \in Tokens : entries[k] # Absent}
    /\ extend_count' = extend_count + 1
    /\ query' = NoQuery
    /\ UNCHANGED <<environment, set_count, last_set>>
    /\ UNCHANGED nonCtxVars

\* ctx.get(key)
CtxGet ==
    /\ \E key \in Tokens :
          query' = [op |-> "get", key |-> key, out |-> get(variables, key)]
    /\ UNCHANGED <<variables, environment, set_count, last_set, extend_count,
                   extended>>
    /\ UNCHANGED nonCtxVars

\* ctx.interpolate_str("${key}")
CtxInterpolate ==
    /\ \E key \in Tokens :
          query' = [op |-> "interpolate", key |-> key,
                    out |-> interpolate_str(variables, environment,
                                            <<Placeholder(key)>>)]
    /\ UNCHANGED <<variables, environment, set_count, last_set, extend_count,
                   extended>>
    /\ UNCHANGED nonCtxVars

(***************************************************************************)
(* A plan of steps without dependencies and without recovery policy, run   *)
(* twice from the same Context against the same server: in the order of    *)
(* the plan, and in the order of a permutation of it. The steps of one     *)
(* wave of DagPlanner::execute call their executors one at a time, under   *)
(* the Context write lock, in any order, which is the second run as well.  *)
(* The server answers a request by what the request holds: the params of   *)
(* the step and the values HttpExecutor::execute reads from the Context.   *)
(***************************************************************************)
\* number of steps of the plan that is permuted
NumPermSteps == 2

\* the Context keys of the plans that are permuted: the three
\* HttpExecutor::execute reads by name and the one the paths and the global
\* headers tried interpolate. The value of a key is "absent", "old" (set
\* before the run) or "new" (extracted in the run); the value of
\* global_headers is "absent", "new" (an extracted value none of whose
\* headers names a variable) or "Bearer ${token}" (an object with the header
\* Authorization: Bearer ${token})
ContextKeys == {"base_url", "global_headers", "timeout_ms", "token"}

\* params.path values tried: a complete URL, and a relative path with ${token}
Paths == {"http://host/users", "/users/${token}"}

\* a step: params.path, whether params.timeout_ms is there as an unsigned
\* integer (as_u64 is Some, http.rs 711-713), and the targets of its
\* extraction rules (none or one rule)
IndependentSteps ==
    [path : Paths, timeout_u64 : BOOLEAN,
     extract : {{}} \cup {{k} : k \in ContextKeys}]

\* main.rs 362-371: base_url is set; config.variables holds token or not, and
\* global_headers, with a header that names ${token}, or not
PlanContexts ==
    {[k \in ContextKeys |->
        CASE k = "base_url" -> "old"
          [] k = "token" -> v
          [] k = "global_headers" -> h
          [] OTHER -> "absent"] :
        v \in {"absent", "old"}, h \in {"absent", "Bearer ${token}"}}

\* the variables Context::interpolate_str looks up for the paths tried
placeholders(path) == IF path = "/users/${token}" THEN {"token"} ELSE {}

\* http.rs 685-692: the variables interpolate_str looks up for the values of
\* the global_headers of the Context
header_placeholders(ctx) ==
    IF ctx["global_headers"] = "Bearer ${token}" THEN {"token"} ELSE {}

\* http.rs 636: interpolated_path.starts_with("http")
starts_with_http(path) == path = "http://host/users"

\* the Context keys HttpExecutor::execute reads to build the request: the
\* placeholders of the path (628), base_url unless the path is a complete
\* URL (636-642), global_headers and the placeholders of its values
\* (685-692), and timeout_ms unless params.timeout_ms is an unsigned
\* integer (711-715)
reads(step, ctx) ==
    placeholders(step.path)
        \cup (IF starts_with_http(step.path) THEN {} ELSE {"base_url"})
        \cup {"global_headers"}
        \cup header_placeholders(ctx)
        \cup (IF step.timeout_u64 THEN {} ELSE {"timeout_ms"})

\* http.rs 628 and 688: interpolate_str is Err for a variable the Context
\* lacks, and the ? returns before the request is sent
interpolation_fails(step, ctx) ==
    ~((placeholders(step.path) \cup header_placeholders(ctx)) \subseteq Keys(ctx))

\* the request of a step: whether one is sent, and the values it is built of
request(step, ctx) ==
    [sent |-> ~interpolation_fails(step, ctx),
     values |-> [k \in reads(step, ctx) |->
                    IF interpolation_fails(step, ctx) THEN "absent" ELSE ctx[k]]]

\* the responses a run can get for the request of step i: the one the other
\* run got for the same request of the step, any response for another
\* request. "ok" is a response that meets the assertions of the step and has
\* what its extraction rules look for, "ok_bearer" one where what the rule
\* for global_headers finds is an object with Authorization: Bearer ${token},
\* "ko" a network error or a response that fails an assertion
responses_to(i, req, other) ==
    IF ~req.sent THEN {"none"}
    ELSE LET same == {k \in 1..Len(other.done) :
                         /\ other.done[k].step = i
                         /\ other.done[k].request = req}
         IN IF same = {}
            THEN {"ok", "ko"}
                    \cup (IF "global_headers" \in p_steps[i].extract
                          THEN {"ok_bearer"} ELSE {})
            ELSE {other.done[k].response : k \in same}

\* HttpExecutor::execute seen from execute_step_with_retry without a policy:
\* the status returned and the Context left. An interpolation error is Err,
\* which main.rs turns into Failed
execute_once(step, ctx, resp) ==
    IF interpolation_fails(step, ctx)
    THEN [status |-> "Failed", context |-> ctx]
    ELSE IF resp = "ko"
    THEN [status |-> "Failed", context |-> ctx]
    ELSE [status |-> "Passed",
          context |-> [k \in ContextKeys |->
                          IF k \notin step.extract THEN ctx[k]
                          ELSE IF k = "global_headers" /\ resp = "ok_bearer"
                          THEN "Bearer ${token}"
                          ELSE "new"]]

\* the for loop that ends at the first step that does not pass
sequential_done_at_failure(order, steps) ==
    \/ Len(order) = Len(steps)
    \/ \E k \in 1..Len(order) : order[k].status # "Passed"

\* execute_sequential, main.rs 460: the for loop is over
sequential_done(order, steps) == Len(order) = Len(steps)

NoRun == [initial |-> EmptyContext, context |-> EmptyContext, done |-> <<>>]

PermIdle ==
    /\ p_steps = <<>>
    /\ runA = NoRun
    /\ runB = NoRun

PermStart ==
    /\ p_steps \in [1..NumPermSteps -> IndependentSteps]
    /\ \E c \in PlanContexts :
          /\ runA = [initial |-> c, context |-> c, done |-> <<>>]
          /\ runB = [initial |-> c, context |-> c, done |-> <<>>]

\* one turn of the loop on step i of the plan, the server answering resp
RunStep(run, i, resp) ==
    LET r == execute_once(p_steps[i], run.context, resp)
    IN [initial |-> run.initial, context |-> r.context,
        done |-> Append(run.done,
                        [step |-> i, status |-> r.status,
                         request |-> request(p_steps[i], run.context),
                         response |-> resp])]

\* execute_sequential on the plan: the next step in plan order
PlanOrderStep ==
    /\ ~sequential_done(runA.done, p_steps)
    /\ LET i == Len(runA.done) + 1
       IN \E resp \in responses_to(i, request(p_steps[i], runA.context), runB) :
             runA' = RunStep(runA, i, resp)
    /\ UNCHANGED <<p_steps, runB>>
    /\ UNCHANGED nonPermVars

\* execute_sequential on the permuted plan: the next step of the permutation,
\* any step not run yet
PermutedOrderStep ==
    /\ sequential_done(runA.done, p_steps)
    /\ ~sequential_done(runB.done, p_steps)
    /\ \E i \in 1..Len(p_steps) :
          /\ \A k \in 1..Len(runB.done) : runB.done[k].step # i
          /\ \E resp \in responses_to(i, request(p_steps[i], runB.context), runA) :
                runB' = RunStep(runB, i, resp)
    /\ UNCHANGED <<p_steps, runA>>
    /\ UNCHANGED nonPermVars

\* the set of (step id, status) results of a run
ResultSet(run) ==
    {<<run.done[k].step, run.done[k].status>> : k \in 1..Len(run.done)}

(***************************************************************************)
(* The plans handed to validate_plan and execute_plan                      *)
(***************************************************************************)
\* largest number of steps of a plan handed to validate_plan alone
MaxPlanSteps == 3
\* largest number of steps of a plan handed to execute_plan
MaxRunSteps == 2

\* Step.id values tried: two names and a blank one
StepIds == {"a", "b", " "}

\* Step.depends_on values tried
DependsOnLists == {<<>>, <<"a">>, <<"b">>, <<"a", "b">>}

\* Step.action and Step.params values tried. params.method is "none" when the
\* key is missing; path and duration_ms say whether the key is there with a
\* value of the right type
NoParams == [method |-> "none", path |-> FALSE, duration_ms |-> FALSE]

HttpOk ==
    [action |-> "http_request",
     params |-> [method |-> "get", path |-> TRUE, duration_ms |-> FALSE]]

StepShapes ==
    {HttpOk,
     [action |-> "http_request",
      params |-> [method |-> "FETCH", path |-> FALSE, duration_ms |-> FALSE]],
     [action |-> "http_request",
      params |-> [method |-> "none", path |-> TRUE, duration_ms |-> FALSE]],
     [action |-> "wait",
      params |-> [method |-> "none", path |-> FALSE, duration_ms |-> TRUE]],
     [action |-> "sleep", params |-> NoParams],
     [action |-> "browser_click", params |-> NoParams]}

\* the steps built from these values
StepsOf(shapes, policies) ==
    {[id |-> i, depends_on |-> d, action |-> sh.action, params |-> sh.params,
      recovery_policy |-> p] :
        i \in StepIds, d \in DependsOnLists, sh \in shapes, p \in policies}

SpecVersions == {"0.1", "2.0"}

\* the plans of at most n such steps
PlansOf(shapes, policies, n) ==
    [spec_version : SpecVersions,
     steps : UNION {[1..k -> StepsOf(shapes, policies)] : k \in 0..n}]

(***************************************************************************)
(* validate_plan (validation/mod.rs)                                       *)
(***************************************************************************)
SUPPORTED_SPEC_VERSION == "0.1"

KNOWN_ACTIONS == {"http_request", "wait", "sleep"}

VALID_HTTP_METHODS ==
    {"GET", "POST", "PUT", "DELETE", "PATCH", "HEAD", "OPTIONS"}

\* str::trim on the id values
trim(s) == IF s = " " THEN "" ELSE s

\* str::to_uppercase on the method values
to_uppercase(s) == IF s = "get" THEN "GET" ELSE s

\* a ValidationError: its variant, its step_id and its other field
ValidationError(kind, id, detail) ==
    [kind |-> kind, step_id |-> id, detail |-> detail]

\* validate_http_request_params
validate_http_request_params(step) ==
    (IF step.params.method = "none"
     THEN <<ValidationError("MissingParam", step.id, "method")>>
     ELSE IF to_uppercase(step.params.method) \notin VALID_HTTP_METHODS
     THEN <<ValidationError("InvalidHttpMethod", step.id, step.params.method)>>
     ELSE <<>>)
    \o (IF ~step.params.path
        THEN <<ValidationError("MissingParam", step.id, "path")>>
        ELSE <<>>)

\* validate_wait_params
validate_wait_params(step) ==
    IF ~step.params.duration_ms
    THEN <<ValidationError("MissingParam", step.id, "duration_ms")>>
    ELSE <<>>

\* validate_step, lines 277-293: the dependencies from the i-th on
RECURSIVE validate_dependencies(_, _, _)
validate_dependencies(step, all_step_ids, i) ==
    IF i > Len(step.depends_on) THEN <<>>
    ELSE LET dep == step.depends_on[i]
         IN (IF dep \notin all_step_ids
             THEN <<ValidationError("UnknownDependency", step.id, dep)>>
             ELSE <<>>)
            \o (IF dep = step.id
                THEN <<ValidationError("CircularDependency", step.id, "")>>
                ELSE <<>>)
            \o validate_dependencies(step, all_step_ids, i + 1)

\* validate_step: the errors it pushes
validate_step(step, all_step_ids) ==
    IF trim(step.id) = ""
    THEN <<ValidationError("EmptyStepId", "<vazio>", "")>>
    ELSE (IF step.action \notin KNOWN_ACTIONS
          THEN <<ValidationError("UnknownAction", step.id, step.action)>>
          ELSE <<>>)
         \o (IF step.action = "http_request"
             THEN validate_http_request_params(step)
             ELSE IF step.action \in {"wait", "sleep"}
             THEN validate_wait_params(step)
             ELSE <<>>)
         \o validate_dependencies(step, all_step_ids, 1)

\* the ids of the steps
IdsOf(steps) == {steps[i].id : i \in 1..Len(steps)}

\* HashMap::insert in a loop over the steps: the last step of an id stays
LastOf(steps, id) ==
    CHOOSE i \in 1..Len(steps) :
        /\ steps[i].id = id
        /\ \A j \in (i + 1)..Len(steps) : steps[j].id # id

\* validate_dag, lines 402-408: graph
graph(steps) ==
    [id \in IdsOf(steps) |-> steps[LastOf(steps, id)].depends_on]

\* detect_cycle_dfs; st holds color and errors, the result also the bool
\* returned. visit_deps is the loop over the dependencies from the i-th on
RECURSIVE detect_cycle_dfs(_, _, _)
RECURSIVE visit_deps(_, _, _, _)
detect_cycle_dfs(node, g, st) ==
    visit_deps(node, g,
               [color |-> [st.color EXCEPT ![node] = 1], errors |-> st.errors], 1)

visit_deps(node, g, st, i) ==
    IF i > Len(g[node])
    THEN [color |-> [st.color EXCEPT ![node] = 2], errors |-> st.errors,
          found |-> FALSE]
    ELSE LET dep == g[node][i]
             c == IF dep \in DOMAIN st.color THEN st.color[dep] ELSE 3
         IN IF c = 1
            THEN [color |-> st.color,
                  errors |-> Append(st.errors,
                               ValidationError("CircularDependency", node, "")),
                  found |-> TRUE]
            ELSE IF c = 0
            THEN LET r == detect_cycle_dfs(dep, g, st)
                 IN IF r.found THEN r
                    ELSE visit_deps(node, g,
                                    [color |-> r.color, errors |-> r.errors],
                                    i + 1)
            ELSE visit_deps(node, g, st, i + 1)

\* validate_dag, lines 419-423: the DFS from every step still white
RECURSIVE dfs_from_steps(_, _, _, _)
dfs_from_steps(steps, g, st, i) ==
    IF i > Len(steps) THEN st.errors
    ELSE IF st.color[steps[i].id] = 0
    THEN LET r == detect_cycle_dfs(steps[i].id, g, st)
         IN dfs_from_steps(steps, g,
                           [color |-> r.color, errors |-> r.errors], i + 1)
    ELSE dfs_from_steps(steps, g, st, i + 1)

\* validate_dag: the errors of Err, <<>> for Ok
validate_dag(steps) ==
    dfs_from_steps(steps, graph(steps),
                   [color |-> [id \in IdsOf(steps) |-> 0], errors |-> <<>>], 1)

\* validate_plan, lines 214-216: validate_step on the steps from the i-th on
RECURSIVE validate_steps(_, _)
validate_steps(steps, i) ==
    IF i > Len(steps) THEN <<>>
    ELSE validate_step(steps[i], IdsOf(steps)) \o validate_steps(steps, i + 1)

\* validate_plan: the errors of Err, <<>> for Ok
validate_plan(p) ==
    LET version ==
            IF p.spec_version # SUPPORTED_SPEC_VERSION
            THEN <<ValidationError("UnsupportedSpecVersion", "", p.spec_version)>>
            ELSE <<>>
    IN IF p.steps = <<>>
       THEN Append(version, ValidationError("EmptyPlan", "", ""))
       ELSE version \o validate_dag(p.steps) \o validate_steps(p.steps, 1)

(***************************************************************************)
(* validate_limits (limits/mod.rs) and the limits of the run               *)
(***************************************************************************)
DEFAULT_MAX_STEPS == 100
DEFAULT_MAX_RETRIES_TOTAL == 50

\* ExecutionLimits::default
DefaultLimits ==
    [max_steps |-> DEFAULT_MAX_STEPS,
     max_retries_total |-> DEFAULT_MAX_RETRIES_TOTAL]

\* ExecutionLimits::from_env: the defaults, RUNNER_MAX_STEPS=1, RUNNER_MAX_RETRIES=1,
\* and both
LimitChoices ==
    {DefaultLimits,
     [DefaultLimits EXCEPT !.max_steps = 1],
     [DefaultLimits EXCEPT !.max_retries_total = 1],
     [max_steps |-> 1, max_retries_total |-> 1]}

\* main.rs 342-351: the sum of max_attempts, 1 for a step without a policy
RECURSIVE total_retries(_, _)
total_retries(steps, i) ==
    IF i > Len(steps) THEN 0
    ELSE (IF steps[i].recovery_policy = NoPolicy THEN 1
          ELSE steps[i].recovery_policy.max_attempts)
         + total_retries(steps, i + 1)

\* validate_limits with a limit that is reached counted as exceeded
validate_limits_inclusive(step_count, retries, lim) ==
    (IF step_count >= lim.max_steps THEN <<"max_steps">> ELSE <<>>)
    \o (IF retries >= lim.max_retries_total THEN <<"max_retries_total">>
        ELSE <<>>)

\* validate_limits: the names of the limits violated
validate_limits(step_count, retries, lim) ==
    (IF step_count > lim.max_steps THEN <<"max_steps">> ELSE <<>>)
    \o (IF retries > lim.max_retries_total THEN <<"max_retries_total">>
        ELSE <<>>)

\* LimitValidationResult.passed with every plan let through
passed_always(v) == TRUE

\* LimitValidationResult.passed
passed(v) == v = <<>>

(***************************************************************************)
(* execute_plan (main.rs 304-435)                                          *)
(***************************************************************************)
NoPlan == [spec_version |-> SUPPORTED_SPEC_VERSION, steps |-> <<>>]

RunIdle ==
    /\ plan = NoPlan
    /\ parallel = FALSE
    /\ limits = DefaultLimits
    /\ elapsed = FALSE
    /\ runPc = "idle"
    /\ errors = <<>>
    /\ violations = <<>>
    /\ step_results = <<>>
    /\ runInvoked = 0

\* the state after load_plan_from_file
RunStart(plans) ==
    /\ plan \in plans
    /\ parallel \in BOOLEAN
    /\ limits \in LimitChoices
    /\ elapsed = FALSE
    /\ runPc = "validate"
    /\ errors = <<>>
    /\ violations = <<>>
    /\ step_results = <<>>
    /\ runInvoked = 0

\* main.rs 329: validation::validate_plan(&plan)
Validate ==
    /\ runPc = "validate"
    /\ errors' = validate_plan(plan)
    /\ runPc' = "validated"
    /\ UNCHANGED <<plan, parallel, limits, elapsed, violations, step_results, runInvoked>>
    /\ UNCHANGED nonRunVars

\* main.rs 329-335: Err(errors): report and exit(1)
ExitInvalid ==
    /\ runPc = "validated"
    /\ errors # <<>>
    /\ runPc' = "exit_1"
    /\ UNCHANGED <<plan, parallel, limits, elapsed, errors, violations, step_results,
                   runInvoked>>
    /\ UNCHANGED nonRunVars

\* main.rs 341-352: limits::validate_limits
CheckLimits ==
    /\ runPc = "validated"
    /\ errors = <<>>
    /\ violations' = validate_limits(Len(plan.steps),
                                     total_retries(plan.steps, 1), limits)
    /\ runPc' = "limits_checked"
    /\ UNCHANGED <<plan, parallel, limits, elapsed, errors, step_results, runInvoked>>
    /\ UNCHANGED nonRunVars

\* main.rs 353-359: !limit_result.passed: report and exit(1)
ExitLimits ==
    /\ runPc = "limits_checked"
    /\ ~passed(violations)
    /\ runPc' = "exit_1"
    /\ UNCHANGED <<plan, parallel, limits, elapsed, errors, violations, step_results,
                   runInvoked>>
    /\ UNCHANGED nonRunVars

DEFAULT_MAX_PARALLEL == 10

\* DagPlanner::new (planner/mod.rs 134-184). Node i stands for the id of
\* steps[i]: the last step of an id replaces the earlier ones in nodes (157),
\* while dependents_map has collected the dependents of every step of the
\* list (147-154). validate_plan has let through known ids only
DagPlanner_new(steps) ==
    LET ns == {LastOf(steps, id) : id \in IdsOf(steps)}
        deps(i) == {steps[i].depends_on[k] : k \in 1..Len(steps[i].depends_on)}
    IN [dependencies |->
            [n \in ns |-> {LastOf(steps, d) : d \in deps(n) \cap IdsOf(steps)}],
        dependents |->
            [n \in ns |->
                {LastOf(steps, steps[i].id) :
                    i \in {j \in 1..Len(steps) : steps[n].id \in deps(j)}}],
        action |-> [n \in ns |-> steps[n].action],
        recovery_policy |-> [n \in ns |-> steps[n].recovery_policy]]

\* main.rs 384-394: execute_sequential is called, or DagPlanner::new and
\* planner.execute up to its main loop (planner/mod.rs 227-250)
StartExecution ==
    /\ runPc = "limits_checked"
    /\ passed(violations)
    /\ runPc' = IF parallel THEN "parallel" ELSE "sequential"
    /\ IF parallel
       THEN LET planner == DagPlanner_new(plan.steps)
            IN /\ depends_on' = planner.dependencies
               /\ dependents' = planner.dependents
               /\ action' = planner.action
               /\ step_policy' = planner.recovery_policy
               /\ max_parallel' = DEFAULT_MAX_PARALLEL
               /\ permits' = SemaphoreSize'
               /\ ready' \in SetToSeq(roots')
               /\ invoked' = [n \in DOMAIN planner.dependencies |-> 0]
               /\ mainPc' = "loop"
               /\ UNCHANGED <<results, completed, failed, tasks, ctxLock>>
       ELSE UNCHANGED dagVars
    /\ UNCHANGED <<plan, parallel, limits, elapsed, errors, violations, step_results,
                   runInvoked>>
    /\ UNCHANGED <<retryVars, ctxVars, permVars, dagCtxVars, lockVars, backoffVars,
                   counterVars>>

\* execute_step_with_retry (main.rs 517-599) seen from execute_sequential,
\* from call number att of the executor on: the status returned and the
\* number of calls made. Every call can give Passed; a call that does not
\* is reported as Passed under ignore, ends the loop with Failed when
\* should_return says so, and is followed by another call otherwise
RECURSIVE step_with_retry(_, _)
step_with_retry(policy, att) ==
    LET strat == IF policy = NoPolicy THEN "fail_fast" ELSE policy.strategy
        max == IF policy = NoPolicy THEN 1 ELSE policy.max_attempts
    IN {[status |-> "Passed", calls |-> att]}
          \cup (IF strat = "ignore" THEN {}
                ELSE IF should_return(strat, att, max)
                THEN {[status |-> "Failed", calls |-> att]}
                ELSE step_with_retry(policy, att + 1))

\* execute_sequential, main.rs 460-486: the next step of the list is run
SequentialStep ==
    /\ runPc = "sequential"
    /\ Len(step_results) < Len(plan.steps)
    /\ LET step == plan.steps[Len(step_results) + 1]
       IN IF HasExecutor(step.action)
          THEN \E r \in step_with_retry(step.recovery_policy, 1) :
                  /\ runInvoked' = runInvoked + r.calls
                  /\ step_results' = Append(step_results, r.status)
          ELSE /\ step_results' = Append(step_results, "Failed")
               /\ UNCHANGED runInvoked
    /\ UNCHANGED <<plan, parallel, limits, elapsed, runPc, errors, violations>>
    /\ UNCHANGED nonRunVars

\* main.rs 396: step_results.iter().all(|r| r.status == StepStatus::Passed)
all_passed ==
    IF parallel THEN \A r \in BagToSet(results) : r.status = "Passed"
    ELSE \A i \in 1..Len(step_results) : step_results[i] = "Passed"

\* main.rs 396-434, once execute_sequential or planner.execute has returned:
\* the report is written; exit(1) unless every step passed
Report ==
    /\ \/ runPc = "sequential" /\ Len(step_results) = Len(plan.steps)
       \/ runPc = "parallel" /\ mainPc = "done"
    /\ runPc' = IF all_passed THEN "exit_0" ELSE "exit_1"
    /\ UNCHANGED <<plan, parallel, limits, elapsed, errors, violations, step_results,
                   runInvoked>>
    /\ UNCHANGED nonRunVars

\* validate_plan on its own, on every plan of the bound
InitValidate ==
    /\ RunStart(PlansOf(StepShapes, {NoPolicy}, MaxPlanSteps))
    /\ parallel = FALSE
    /\ limits = DefaultLimits
    /\ RetryIdle
    /\ DagIdle
    /\ CtxIdle
    /\ PermIdle
    /\ DagCtxIdle /\ LockIdle
    /\ BackoffIdle
    /\ CounterIdle

SpecValidate == InitValidate /\ [][Validate]_vars

\* a plan of three steps in a chain
ChainPlan ==
    [spec_version |-> SUPPORTED_SPEC_VERSION,
     steps |-> [i \in 1..3 |->
                  [id |-> <<"a", "b", "c">>[i],
                   depends_on |-> <<<<>>, <<"a">>, <<"b">>>>[i],
                   action |-> HttpOk.action, params |-> HttpOk.params,
                   recovery_policy |-> NoPolicy]]]

\* execute_plan on the plans of well-formed steps
InitRun ==
    /\ RunStart(PlansOf({HttpOk}, {NoPolicy, [strategy |-> "retry",
                                              max_attempts |-> 2]},
                        MaxRunSteps) \cup {ChainPlan})
    /\ RetryIdle
    /\ DagIdle
    /\ CtxIdle
    /\ PermIdle
    /\ DagCtxIdle /\ LockIdle
    /\ BackoffIdle
    /\ CounterIdle

RunNext ==
    \/ Validate
    \/ ExitInvalid
    \/ CheckLimits
    \/ ExitLimits
    \/ StartExecution
    \/ SequentialStep
    \/ Report
    \* planner.execute: a plan that validate_plan accepted has an executor
    \* for every action
    \/ MainSpawn
    \/ MainBreak
    \/ MainSleep
    \/ MainWake
    \/ MainJoin
    \/ \E i \in 1..Len(tasks) : Acquire(i)
    \/ \E i \in 1..Len(tasks) : CheckDeps(i)
    \/ \E i \in 1..Len(tasks) : SkipSnapshot(i)
    \/ \E i \in 1..Len(tasks) : SkipPush(i)
    \/ \E i \in 1..Len(tasks) : SkipMark(i)
    \/ \E i \in 1..Len(tasks) : ExecBegin(i)
    \/ \E i \in 1..Len(tasks) : ExecEnd(i)
    \/ \E i \in 1..Len(tasks) : Push(i)
    \/ \E i \in 1..Len(tasks) : Mark(i)
    \/ \E i \in 1..Len(tasks) : ReleaseDependents(i)
    \/ \E i \in 1..Len(tasks) : Enqueue(i)

SpecRun == InitRun /\ [][RunNext]_vars

InitContext == CtxStart /\ RetryIdle /\ DagIdle /\ RunIdle /\ PermIdle /\ DagCtxIdle /\ LockIdle /\ BackoffIdle /\ CounterIdle

ContextNext ==
    \/ CtxSet
    \/ CtxExtend
    \/ CtxGet
    \/ CtxInterpolate

SpecContext == InitContext /\ [][ContextNext]_vars

InitPermute == PermStart /\ RetryIdle /\ DagIdle /\ RunIdle /\ CtxIdle /\ DagCtxIdle /\ LockIdle /\ BackoffIdle /\ CounterIdle

PermuteNext ==
    \/ PlanOrderStep
    \/ PermutedOrderStep

SpecPermute == InitPermute /\ [][PermuteNext]_vars

RetryInit == RetryStepInit /\ RetryIdle /\ RunIdle /\ CtxIdle /\ PermIdle /\ DagCtxIdle /\ LockIdle /\ BackoffIdle /\ CounterIdle

RetryNext ==
    \/ MainAttempt
    \/ MainBackoff
    \/ RxStart
    \/ RxAttempt
    \/ RxBackoff

SpecRetry == RetryInit /\ [][RetryNext]_vars

ExtractInit == ExtractStepInit /\ RetryIdle /\ RunIdle /\ CtxIdle /\ PermIdle /\ DagCtxIdle /\ LockIdle /\ BackoffIdle /\ CounterIdle

ExtractNext ==
    \/ MainAttempt
    \/ RxStart
    \/ RxAttempt

SpecExtract == ExtractInit /\ [][ExtractNext]_vars

Init == DagInit /\ DagIdle /\ RunIdle /\ CtxIdle /\ PermIdle /\ DagCtxIdle /\ LockIdle /\ BackoffIdle /\ CounterIdle

Next ==
    \/ MainSpawn
    \/ MainBreak
    \/ MainSleep
    \/ MainWake
    \/ MainJoin
    \/ \E i \in 1..Len(tasks) : Acquire(i)
    \/ \E i \in 1..Len(tasks) : CheckDeps(i)
    \/ \E i \in 1..Len(tasks) : SkipSnapshot(i)
    \/ \E i \in 1..Len(tasks) : SkipPush(i)
    \/ \E i \in 1..Len(tasks) : SkipMark(i)
    \/ \E i \in 1..Len(tasks) : ExecBegin(i)
    \/ \E i \in 1..Len(tasks) : ExecEnd(i)
    \/ \E i \in 1..Len(tasks) : NoExecutor(i)
    \/ \E i \in 1..Len(tasks) : Push(i)
    \/ \E i \in 1..Len(tasks) : Mark(i)
    \/ \E i \in 1..Len(tasks) : ReleaseDependents(i)
    \/ \E i \in 1..Len(tasks) : Enqueue(i)

Spec == Init /\ [][Next]_vars

\* the tokio runtime runs every task that can make a step
FairSpec == Spec /\ WF_vars(Next)

\* lines 292-359 and 443: the executor panics inside the spawned task. The
\* task unwinds: the Context write guard and the permit are dropped, nothing
\* after the call runs, and join_next yields the JoinError, which the main
\* loop does not look at
ExecPanic(i) ==
    /\ tasks[i].pc = "in_exec"
    /\ tasks' = SetTask(i, [DoneTask(tasks[i].step_id) EXCEPT !.error = "panic"])
    /\ ctxLock' = 0
    /\ permits' = permits + 1
    /\ UNCHANGED <<depends_on, dependents, action, step_policy, max_parallel, results,
                   completed, failed, ready, mainPc, invoked>>
    /\ UNCHANGED nonDagVars

\* the scheduler with executors that can panic
PanicNext ==
    \/ Next
    \/ \E i \in 1..Len(tasks) : ExecPanic(i)

SpecPanic == Init /\ [][PanicNext]_vars

FairSpecPanic == SpecPanic /\ WF_vars(PanicNext)

\* limits.max_execution_time passes while the scheduler runs. No line of
\* DagPlanner::execute reads the field or a clock: nothing else changes
Expire ==
    /\ mainPc \notin {"idle", "done"}
    /\ ~elapsed
    /\ elapsed' = TRUE
    /\ UNCHANGED <<plan, parallel, limits, runPc, errors, violations,
                   step_results, runInvoked>>
    /\ UNCHANGED nonRunVars

\* the scheduler and the clock
DeadlineNext ==
    \/ Next
    \/ Expire

SpecDeadline == Init /\ [][DeadlineNext]_vars

\* Step.action values of the plans run with a Context: handled by
\* HttpExecutor, by WaitExecutor, by nobody
ContextActions == {"http_request", "wait", "unknown_action"}

\* plans with at most one step that is not an http_request, run with
\* RUNNER_MAX_PARALLEL=2
InitDagContext ==
    /\ depends_on \in {f \in [Nodes -> SUBSET Nodes] :
                          \A n \in Nodes : \A d \in f[n] : d < n}
    /\ dependents = inverse_edges(depends_on)
    /\ action \in {f \in [Nodes -> ContextActions] :
                      Cardinality({n \in Nodes : f[n] # "http_request"}) <= 1}
    /\ step_policy = [n \in Nodes |-> NoPolicy]
    /\ max_parallel = 2
    /\ permits = SemaphoreSize
    /\ results = EmptyBag
    /\ completed = {}
    /\ failed = {}
    /\ ready \in SetToSeq(roots)
    /\ mainPc = "loop"
    /\ tasks = <<>>
    /\ ctxLock = 0
    /\ invoked = [n \in Nodes |-> 0]
    /\ DagCtxStart /\ LockIdle
    /\ DagIdle
    /\ RunIdle
    /\ CtxIdle
    /\ PermIdle
    /\ BackoffIdle
    /\ CounterIdle

DagContextNext ==
    \/ MainSpawn
    \/ MainBreak
    \/ MainSleep
    \/ MainWake
    \/ MainJoin
    \/ \E i \in 1..Len(tasks) : Acquire(i)
    \/ \E i \in 1..Len(tasks) : CheckDeps(i)
    \/ \E i \in 1..Len(tasks) : SkipSnapshot(i)
    \/ \E i \in 1..Len(tasks) : SkipPush(i)
    \/ \E i \in 1..Len(tasks) : SkipMark(i)
    \/ \E i \in 1..Len(tasks) : ExecBegin(i)
    \/ \E i \in 1..Len(tasks) : ExecEndContext(i)
    \/ \E i \in 1..Len(tasks) : NoExecutor(i)
    \/ \E i \in 1..Len(tasks) : Push(i)
    \/ \E i \in 1..Len(tasks) : Mark(i)
    \/ \E i \in 1..Len(tasks) : ReleaseDependents(i)
    \/ \E i \in 1..Len(tasks) : Enqueue(i)

SpecDagContext == InitDagContext /\ [][DagContextNext]_vars

\* the scheduler on plans whose steps have recovery policies
InitLocks ==
    /\ LockStart
    /\ DagIdle
    /\ RetryIdle
    /\ RunIdle
    /\ CtxIdle
    /\ PermIdle
    /\ DagCtxIdle
    /\ BackoffIdle
    /\ CounterIdle

LockNext ==
    \/ \E p \in LockProcs : LockTake(p)
    \/ \E p \in LockProcs : LockDrop(p)
    \/ LockSpawn
    \/ LockJoin

SpecLocks == InitLocks /\ [][LockNext]_vars

InitBackoff ==
    /\ BackoffStart
    /\ DagIdle
    /\ RetryIdle
    /\ RunIdle
    /\ CtxIdle
    /\ PermIdle
    /\ DagCtxIdle
    /\ LockIdle
    /\ CounterIdle

BackoffNext ==
    \/ MainTurn
    \/ RxTurn

SpecBackoff == InitBackoff /\ [][BackoffNext]_vars

\* largest number of steps of a plan of steps without recovery policy
MaxPlainSteps == 60

\* the plans of 1..n valid steps with distinct ids (here numbers), without
\* dependencies and without recovery policy
PlainPlans(n) ==
    {[spec_version |-> SUPPORTED_SPEC_VERSION,
      steps |-> [i \in 1..k |->
                   [id |-> i, depends_on |-> <<>>, action |-> HttpOk.action,
                    params |-> HttpOk.params, recovery_policy |-> NoPolicy]]] :
        k \in 1..n}

\* execute_plan under the default limits, once validate_plan has accepted
\* such a plan (main.rs 329-338)
InitLimits ==
    /\ plan \in PlainPlans(MaxPlainSteps)
    /\ parallel = FALSE
    /\ limits = DefaultLimits
    /\ elapsed = FALSE
    /\ runPc = "validated"
    /\ errors = <<>>
    /\ violations = <<>>
    /\ step_results = <<>>
    /\ runInvoked = 0
    /\ DagIdle
    /\ RetryIdle
    /\ CtxIdle
    /\ PermIdle
    /\ DagCtxIdle
    /\ LockIdle
    /\ BackoffIdle
    /\ CounterIdle

LimitsNext ==
    \/ CheckLimits
    \/ ExitLimits
    \/ StartExecution

SpecLimits == InitLimits /\ [][LimitsNext]_vars

InitCounter ==
    /\ CounterStart
    /\ DagIdle
    /\ RetryIdle
    /\ RunIdle
    /\ CtxIdle
    /\ PermIdle
    /\ DagCtxIdle
    /\ LockIdle
    /\ BackoffIdle

CounterNext ==
    \/ \E p \in Callers : FetchAdd(p)
    \/ \E p \in Callers : TryIncrementReturn(p)

SpecCounter == InitCounter /\ [][CounterNext]_vars

InitPolicy == PolicyInit /\ DagIdle /\ RunIdle /\ CtxIdle /\ PermIdle /\ DagCtxIdle /\ LockIdle /\ BackoffIdle /\ CounterIdle

SpecPolicy == InitPolicy /\ [][Next]_vars

(***************************************************************************)
(* C1: for every valid plan DagPlanner::execute eventually returns.        *)
(***************************************************************************)
C1_ExecuteReturns == <>(mainPc = "done")

(***************************************************************************)
(* C2: when DagPlanner::execute returns, the result list holds exactly one *)
(* StepResult per step id.                                                 *)
(***************************************************************************)
C2_OneResultPerStep ==
    mainPc = "done" => \A n \in Nodes : ResultCount(n) = 1

(***************************************************************************)
(* C3: no task of a step exists before every step in its transitive        *)
(* depends_on has a result and is in the completed or failed set.          *)
(***************************************************************************)
C3_StartsAfterAncestors ==
    \A i \in 1..Len(tasks) :
        \A a \in Ancestors(tasks[i].step_id) :
            /\ a \in completed \cup failed
            /\ ResultCount(a) >= 1

\* a step with an indirect ancestor is inside its executor
C3_Witness ==
    \E i \in 1..Len(tasks) :
        /\ tasks[i].pc = "in_exec"
        /\ Ancestors(tasks[i].step_id) # depends_on[tasks[i].step_id]

(***************************************************************************)
(* C4: with max_parallel = N >= 1 at most N tasks hold a permit, so at     *)
(* most N steps are inside an executor body.                               *)
(***************************************************************************)
HoldsPermit(i) == tasks[i].pc \notin {"acquire", "done"}

C4_BoundedParallelism ==
    max_parallel >= 1 =>
        /\ Cardinality({i \in 1..Len(tasks) : HoldsPermit(i)}) <= max_parallel
        /\ Cardinality({i \in 1..Len(tasks) : tasks[i].pc = "in_exec"})
               <= max_parallel

\* every permit is taken while another task waits for one
C4_Witness ==
    /\ max_parallel >= 1
    /\ Cardinality({i \in 1..Len(tasks) : HoldsPermit(i)}) = max_parallel
    /\ \E i \in 1..Len(tasks) : tasks[i].pc = "acquire"

(***************************************************************************)
(* C5: a step ends Skipped iff one of its direct predecessors is in the    *)
(* failed set; a Skipped step never has its executor invoked; a step whose *)
(* predecessors all Passed is never Skipped.                               *)
(***************************************************************************)
C5_SkippedIffFailedDep ==
    Settled =>
        \A n \in Nodes :
            /\ HasStatus(n, "Skipped") <=> FailedDeps(n) # {}
            /\ HasStatus(n, "Skipped") => invoked[n] = 0
            /\ dependencies(n) \subseteq (completed \ failed)
                  => ~HasStatus(n, "Skipped")

(***************************************************************************)
(* C6: skipping is transitive: a step with a Skipped direct predecessor    *)
(* ends Skipped itself.                                                    *)
(***************************************************************************)
C6_SkipIsTransitive ==
    Settled =>
        \A n \in Nodes :
            (\E d \in dependencies(n) : HasStatus(d, "Skipped"))
                => HasStatus(n, "Skipped")

(***************************************************************************)
(* C7: a step whose final status is Passed had every assertion evaluate to *)
(* true and had no extraction with critical = true fail.                   *)
(***************************************************************************)
C7_PassedImpliesClean ==
    (mPc = "returned" /\ mResult.status = "Passed") =>
        /\ mResult.evaluated_true
        /\ ~has_critical_failure(mResult.extractions)

(***************************************************************************)
(* C8: the number of executor invocations for a step is at most its        *)
(* recovery_policy.max_attempts (1 without a policy), in both retry loops. *)
(***************************************************************************)
C8_RetryUpperBound ==
    /\ mInvoked <= max_attempts
    /\ rInvoked <= RetryExecutorPolicy.max_attempts

(***************************************************************************)
(* C9: with strategy = retry and max_attempts = N >= 1, a first success on *)
(* attempt k <= N means exactly k invocations and success; failing every   *)
(* time means exactly N invocations and the last failure returned.         *)
(***************************************************************************)
Failing(r) == ~(r.ok /\ r.status = "Passed")

C9_RetryCounts ==
    (strategy = "retry" /\ max_attempts >= 1) =>
        /\ mPc = "returned" =>
              /\ mInvoked <= max_attempts
              /\ \A j \in 1..(mInvoked - 1) : Failing(outcomes[j])
              /\ IF Failing(outcomes[mInvoked])
                 THEN /\ mInvoked = max_attempts
                      /\ mResult.status = "Failed"
                      /\ mResult.error = outcomes[mInvoked].error
                 ELSE mResult = outcomes[mInvoked]
        /\ rPc = "returned" =>
              /\ rInvoked <= max_attempts
              /\ \A j \in 1..(rInvoked - 1) : Failing(outcomes[j])
              /\ IF Failing(outcomes[rInvoked])
                 THEN /\ rInvoked = max_attempts
                      /\ rResult = [kind |-> "err",
                                    error |-> outcomes[rInvoked].error]
                 ELSE rResult.kind = "ok_some"

\* both loops returned success after at least one failed attempt
C9_Witness ==
    /\ strategy = "retry"
    /\ mPc = "returned" /\ rPc = "returned"
    /\ mInvoked >= 2 /\ rInvoked = mInvoked
    /\ mResult.status = "Passed"
    /\ rResult.kind = "ok_some"

(***************************************************************************)
(* C10: with strategy = fail_fast, without a policy or with a strategy the *)
(* loop does not recognise, a failing step is invoked exactly once and its *)
(* failure is returned as Failed, whatever max_attempts is.                *)
(***************************************************************************)
C10_FailFastOnce ==
    /\ (mPc = "returned" /\ strategy \notin {"retry", "ignore"}
          /\ Failing(outcomes[1])) =>
            /\ mInvoked = 1
            /\ mResult.status = "Failed"
            /\ mResult.error = outcomes[1].error
    /\ (rPc = "returned" /\ from_str(RetryExecutorPolicy.strategy) = "FailFast"
          /\ Failing(outcomes[1])) =>
            /\ rInvoked = 1
            /\ rResult = [kind |-> "err", error |-> outcomes[1].error]

\* a failing step with an unknown strategy and attempts to spare has returned
C10_Witness ==
    /\ recovery_policy # NoPolicy
    /\ strategy = "exponential"
    /\ max_attempts >= 2
    /\ mPc = "returned" /\ rPc = "returned"
    /\ mInvoked = 1 /\ rInvoked = 1
    /\ mResult.status = "Failed"
    /\ rResult.kind = "err"

(***************************************************************************)
(* C11: with strategy = ignore a failing step (Failed result or executor   *)
(* error) is invoked exactly once and returned Passed without an error,    *)
(* with the context snapshots and the extraction results of the failed     *)
(* attempt; RetryExecutor returns Ok(None) after one call.                 *)
(***************************************************************************)
C11_IgnoreOnce ==
    /\ (mPc = "returned" /\ strategy = "ignore" /\ Failing(outcomes[1])) =>
            /\ mInvoked = 1
            /\ mResult.status = "Passed"
            /\ mResult.error = "none"
            /\ mResult.context_before = outcomes[1].context_before
            /\ mResult.context_after = outcomes[1].context_after
            /\ mResult.extractions = outcomes[1].extractions
    /\ (rPc = "returned" /\ from_str(RetryExecutorPolicy.strategy) = "Ignore"
          /\ Failing(outcomes[1])) =>
            /\ rInvoked = 1
            /\ rResult = [kind |-> "ok_none", error |-> "none"]

\* a step with strategy = ignore and attempts to spare failed an assertion
\* and both loops returned
C11_Witness ==
    /\ recovery_policy # NoPolicy
    /\ strategy = "ignore"
    /\ max_attempts >= 2
    /\ mPc = "returned" /\ rPc = "returned"
    /\ outcomes[1].ok /\ outcomes[1].status = "Failed"
    /\ mInvoked = 1 /\ rInvoked = 1
    /\ mResult.status = "Passed"
    /\ rResult.kind = "ok_none"

(***************************************************************************)
(* C13: the StepResult returned for a step carries an attempt count equal  *)
(* to the number of executor invocations made for the step (stated for the *)
(* results that carry a count at all).                                     *)
(***************************************************************************)
C13_AttemptCount ==
    (mPc = "returned" /\ mResult.attempt # 0) => mResult.attempt = mInvoked

(***************************************************************************)
(* C19: for every extraction rule of a step that ends Passed, the rule's   *)
(* target is a key of context_after iff the rule's ExtractionResult has    *)
(* success = true.                                                         *)
(***************************************************************************)
C19_TargetIffSuccess ==
    (mPc = "returned" /\ mResult.status = "Passed") =>
        \A j \in 1..Len(extract) :
            extract[j].target \in Keys(mResult.context_after)
                <=> /\ j <= Len(mResult.extractions)
                    /\ mResult.extractions[j].success

(***************************************************************************)
(* C19 as amended: for every ExtractionResult of a step that ends Passed,  *)
(* success = true implies that the target is a key of context_after, and   *)
(* with success = false the target is a key of context_after only if it    *)
(* was a key of context_before or another rule of the step with the same   *)
(* target succeeded.                                                       *)
(***************************************************************************)
C19_TargetOfSuccess ==
    (mPc = "returned" /\ mResult.status = "Passed") =>
        LET rs == mResult.extractions
        IN \A j \in 1..Len(rs) :
              /\ rs[j].success => rs[j].target \in Keys(mResult.context_after)
              /\ (~rs[j].success /\ rs[j].target \in Keys(mResult.context_after))
                    => \/ rs[j].target \in Keys(mResult.context_before)
                       \/ \E k \in 1..Len(rs) : /\ rs[k].target = rs[j].target
                                                /\ rs[k].success

\* a Passed step with two rules for a target the context did not hold: the
\* first rule succeeded and the second failed, and the target is a key of
\* context_after
C19_Witness ==
    /\ mPc = "returned"
    /\ mResult.status = "Passed"
    /\ Len(mResult.extractions) = 2
    /\ mResult.extractions[1].success
    /\ ~mResult.extractions[2].success
    /\ mResult.extractions[2].target = mResult.extractions[1].target
    /\ mResult.extractions[2].target \notin Keys(mResult.context_before)
    /\ mResult.extractions[2].target \in Keys(mResult.context_after)

(***************************************************************************)
(* C20: when an assertion fails the HTTP executor returns Failed without   *)
(* applying any extraction: context_after = context_before, the Context is *)
(* as it was before the step and the result carries no extractions.        *)
(***************************************************************************)
AssertionFailure(r) ==
    r.ok /\ r.status = "Failed" /\ r.error \in {"assertion_1", "assertion_n"}

C20_AssertionFailureFrame ==
    /\ \A k \in 1..Len(outcomes) :
          AssertionFailure(outcomes[k]) =>
              /\ outcomes[k].context_after = outcomes[k].context_before
              /\ outcomes[k].extractions = <<>>
    /\ (mInvoked >= 1 /\ AssertionFailure(outcomes[mInvoked])) =>
          context = outcomes[mInvoked].context_before

\* an assertion failed in a step with an extraction rule for a variable the
\* context does not hold
C20_Witness ==
    /\ mInvoked >= 1
    /\ AssertionFailure(outcomes[mInvoked])
    /\ \E j \in 1..Len(extract) : extract[j].target \notin Keys(context)

(***************************************************************************)
(* C12: in the DAG scheduler the executor call of a step is wrapped by the *)
(* retry machine: a step with strategy = retry that is recorded Failed had *)
(* max_attempts executor calls, and a step with strategy = ignore whose    *)
(* executor was called is never recorded Failed.                           *)
(***************************************************************************)
C12_DagWrapsRetry ==
    Settled =>
        \A n \in Nodes :
            /\ (step_policy[n].strategy = "retry" /\ invoked[n] >= 1
                   /\ HasStatus(n, "Failed"))
                  => invoked[n] >= step_policy[n].max_attempts
            /\ (step_policy[n].strategy = "ignore" /\ invoked[n] >= 1)
                  => ~HasStatus(n, "Failed")

(***************************************************************************)
(* The dependency graph a plan declares: step i depends on step j when the *)
(* id of step j is in the depends_on of step i.                            *)
(***************************************************************************)
DependsOnStep(steps, i, j) ==
    \E k \in 1..Len(steps[i].depends_on) : steps[i].depends_on[k] = steps[j].id

\* the steps reached from the set S of steps along at most k dependencies
RECURSIVE ReachedFrom(_, _, _)
ReachedFrom(steps, S, k) ==
    IF k = 0 THEN S
    ELSE ReachedFrom(steps,
                     S \cup {j \in 1..Len(steps) :
                                \E i \in S : DependsOnStep(steps, i, j)},
                     k - 1)

HasCycle(steps) ==
    \E i \in 1..Len(steps) :
        i \in ReachedFrom(steps,
                          {j \in 1..Len(steps) : DependsOnStep(steps, i, j)},
                          Len(steps))

HasError(kind, id, detail) ==
    \E k \in 1..Len(errors) : errors[k] = ValidationError(kind, id, detail)

HasErrorOfKind(kind) == \E k \in 1..Len(errors) : errors[k].kind = kind

(***************************************************************************)
(* C14: validate_plan returns at least one CircularDependency error if and *)
(* only if the depends_on graph of the plan contains a cycle, a step that  *)
(* depends on itself included.                                             *)
(***************************************************************************)
C14_CircularIffCycle ==
    runPc = "validated" =>
        (HasErrorOfKind("CircularDependency") <=> HasCycle(plan.steps))

(***************************************************************************)
(* C15: for a plan with at least one step validate_plan returns an error   *)
(* for every violated check of every step (spec_version, blank id, unknown *)
(* action, missing or invalid params, unknown dependency, self-dependency, *)
(* cycle); for a plan with no steps it returns EmptyPlan after the version *)
(* check and nothing else.                                                 *)
(***************************************************************************)
C15_CollectsAllErrors ==
    runPc = "validated" =>
        /\ plan.spec_version # SUPPORTED_SPEC_VERSION
              => HasError("UnsupportedSpecVersion", "", plan.spec_version)
        /\ plan.steps = <<>>
              => /\ errors[Len(errors)] = ValidationError("EmptyPlan", "", "")
                 /\ \A k \in 1..Len(errors) :
                       errors[k].kind \in {"UnsupportedSpecVersion", "EmptyPlan"}
        /\ HasCycle(plan.steps) => HasErrorOfKind("CircularDependency")
        /\ \A i \in 1..Len(plan.steps) :
              LET step == plan.steps[i]
              IN /\ trim(step.id) = "" => HasErrorOfKind("EmptyStepId")
                 /\ step.action \notin KNOWN_ACTIONS
                       => HasError("UnknownAction", step.id, step.action)
                 /\ (step.action = "http_request" /\ step.params.method = "none")
                       => HasError("MissingParam", step.id, "method")
                 /\ (step.action = "http_request" /\ step.params.method # "none"
                       /\ to_uppercase(step.params.method)
                             \notin VALID_HTTP_METHODS)
                       => HasError("InvalidHttpMethod", step.id,
                                   step.params.method)
                 /\ (step.action = "http_request" /\ ~step.params.path)
                       => HasError("MissingParam", step.id, "path")
                 /\ (step.action \in {"wait", "sleep"}
                       /\ ~step.params.duration_ms)
                       => HasError("MissingParam", step.id, "duration_ms")
                 /\ \A k \in 1..Len(step.depends_on) :
                       LET dep == step.depends_on[k]
                       IN /\ dep \notin IdsOf(plan.steps)
                                => HasError("UnknownDependency", step.id, dep)
                          /\ dep = step.id
                                => HasError("CircularDependency", step.id, "")

\* DagPlanner::new, planner/mod.rs 141-153: the keys of nodes
DagPlannerNodes(steps) == IdsOf(steps)

(***************************************************************************)
(* C17: every plan validate_plan accepts has pairwise distinct step ids,   *)
(* so DagPlanner::new builds exactly one node per step.                    *)
(***************************************************************************)
C17_AcceptedIdsDistinct ==
    (runPc = "validated" /\ errors = <<>>) =>
        /\ \A i, j \in 1..Len(plan.steps) :
              i # j => plan.steps[i].id # plan.steps[j].id
        /\ Cardinality(DagPlannerNodes(plan.steps)) = Len(plan.steps)

(***************************************************************************)
(* C18: when validate_plan returns errors or validate_limits reports a     *)
(* violation the run aborts before any step executes: no executor is       *)
(* called and neither the DAG scheduler nor the sequential loop starts.    *)
(***************************************************************************)
C18_AbortBeforeExecution ==
    (errors # <<>> \/ violations # <<>>) =>
        /\ runInvoked = 0
        /\ step_results = <<>>
        /\ mainPc = "idle"
        /\ results = EmptyBag
        /\ runPc \in {"validated", "limits_checked", "exit_1"}

\* a plan validate_plan accepted was stopped by validate_limits
C18_Witness ==
    /\ runPc = "exit_1"
    /\ errors = <<>>
    /\ violations # <<>>
    /\ Len(plan.steps) >= 1

(***************************************************************************)
(* C21: an error or a panic inside an executor never tears down or stalls  *)
(* the scheduler: the step gets a Failed result and enters the failed set, *)
(* its dependents end Skipped, and the run terminates with a result for    *)
(* every step.                                                             *)
(***************************************************************************)
\* the executor of step n has just returned Err or panicked
ExecutorBroke(n) ==
    \E i \in 1..Len(tasks) :
        /\ tasks[i].step_id = n
        /\ \/ tasks[i].pc = "push" /\ tasks[i].error = "executor_error"
           \/ tasks[i].pc = "done" /\ tasks[i].error = "panic"

C21_ExecutorFailureContained ==
    \A n \in Nodes :
        ExecutorBroke(n) ~>
            /\ mainPc = "done"
            /\ HasStatus(n, "Failed")
            /\ n \in failed
            /\ \A d \in dependents[n] : HasStatus(d, "Skipped")
            /\ \A m \in Nodes : ResultCount(m) >= 1

(***************************************************************************)
(* C22: when max_execution_time expires during a run the scheduler takes   *)
(* the cancellation path: from then on no step is started (the steps not   *)
(* yet started end Skipped) and no running step ends Passed (the steps     *)
(* running at that moment end Failed).                                     *)
(***************************************************************************)
C22_DeadlineCancels ==
    [][elapsed =>
          /\ invoked' = invoked
          /\ \A i \in 1..Len(tasks) :
                tasks[i].pc = "in_exec" =>
                    /\ i \in 1..Len(tasks')
                    /\ tasks'[i].status # "Passed"]_vars

(***************************************************************************)
(* C23: for every JSON value V and every variable name K that matches the  *)
(* placeholder token grammar, after ctx.set(K, V), ctx.get(K) returns V    *)
(* and interpolate_str("${K}") returns V's text: the string itself when V  *)
(* is a string, its JSON text otherwise. "After ctx.set(K, V)": the set is  *)
(* the last call that wrote K, no extend has written it since.             *)
(***************************************************************************)
TextOf(value) == IF value.type = "String" THEN value.v ELSE to_string(value)

C23_SetGetInterpolate ==
    (set_count >= 1 /\ query.key = last_set.key /\ query.key \notin extended) =>
        /\ query.op = "get"
              => query.out = [ok |-> TRUE, value |-> last_set.value,
                              text |-> <<>>]
        /\ query.op = "interpolate" => query.out = Ok(TextOf(last_set.value))

(***************************************************************************)
(* C23 amended: the same for every variable name K that matches the token  *)
(* grammar, is not the name of a dynamic function (random_uuid, timestamp, *)
(* timestamp_ms, now, now_local, random_int) and does not start with env:, *)
(* base64:, sha256: or ENV_; for the other names get still returns V but   *)
(* interpolate_str resolves the function or the environment variable.      *)
(***************************************************************************)
ContextName(token) ==
    /\ ~(Len(token) = 1 /\ token[1] \in DynamicFunctions)
    /\ \A p \in {"env:", "base64:", "sha256:", "ENV_"} : ~has_prefix(token, p)

C23_SetGetInterpolateContextName ==
    (set_count >= 1 /\ query.key = last_set.key /\ query.key \notin extended) =>
        /\ query.op = "get"
              => query.out = [ok |-> TRUE, value |-> last_set.value,
                              text |-> <<>>]
        /\ (query.op = "interpolate" /\ ContextName(query.key))
              => query.out = Ok(TextOf(last_set.value))

\* a string was set over an earlier value of the name and interpolated
C23_Witness ==
    /\ set_count >= 2
    /\ query.op = "interpolate"
    /\ query.key = last_set.key
    /\ ContextName(query.key)
    /\ last_set.value.type = "String"
    /\ query.out.ok

(***************************************************************************)
(* C24: for a plan whose steps have no dependencies and all use fail_fast, *)
(* permuting the order of the steps does not change the set of (step id,   *)
(* status) results, only their order.                                      *)
(***************************************************************************)
BothRunsDone ==
    /\ p_steps # <<>>
    /\ sequential_done(runA.done, p_steps)
    /\ sequential_done(runB.done, p_steps)

C24_PermutationInvariant ==
    BothRunsDone => ResultSet(runA) = ResultSet(runB)

(***************************************************************************)
(* C24 amended: the same for a plan run against a server whose response    *)
(* to a request depends on the request alone, and in which no step         *)
(* extracts a variable that another step reads: a variable that its params *)
(* or a value of the global_headers the run starts with interpolate, or    *)
(* one of base_url, global_headers and timeout_ms where                    *)
(* HttpExecutor::execute reads it from the Context.                        *)
(***************************************************************************)
NoDataFlow ==
    \A i, j \in 1..Len(p_steps) :
        i # j => reads(p_steps[i], runA.initial) \cap p_steps[j].extract = {}

C24_PermutationInvariantNoDataFlow ==
    (BothRunsDone /\ NoDataFlow) => ResultSet(runA) = ResultSet(runB)

\* the plan was run in another order; a step failed before a step that
\* passed and extracted base_url, which no other step reads
C24_Witness ==
    /\ BothRunsDone
    /\ NoDataFlow
    /\ \E k \in 1..Len(runB.done) : runB.done[k].step # k
    /\ \E k \in 1..Len(runA.done) :
          /\ runA.done[k].status = "Failed"
          /\ runA.done[k].request.sent
          /\ \E m \in (k + 1)..Len(runA.done) :
                /\ runA.done[m].status = "Passed"
                /\ p_steps[m].extract = {"base_url"}
                /\ runA.context["base_url"] = "new"

(***************************************************************************)
(* C25: the completion of a step happens before the start of each of its   *)
(* transitive dependents: when the executor of a step starts, every        *)
(* predecessor has completed and the Context holds every variable the      *)
(* predecessor extracted with success.                                     *)
(***************************************************************************)
C25_PredecessorsExtracted ==
    \A i \in 1..Len(tasks) :
        tasks[i].pc = "in_exec" =>
            \A a \in Ancestors(tasks[i].step_id) :
                /\ a \in completed
                /\ \A j \in 1..Len(tasks) : tasks[j].step_id # a
                /\ d_extracted[a] \subseteq
                      {k \in DagTargets : d_context[k] # "absent"}

\* a step runs whose predecessor's predecessor extracted the token
C25_Witness ==
    \E i \in 1..Len(tasks) :
        /\ tasks[i].pc = "in_exec"
        /\ \E a \in depends_on[tasks[i].step_id] :
              \E b \in depends_on[a] : d_extracted[b] # {}

(***************************************************************************)
(* C26: after seeding, the Context changes only through successful         *)
(* extractions of a step whose assertions all passed: Skipped steps, steps *)
(* with no executor, wait/sleep steps and steps that end Failed leave      *)
(* every variable unchanged.                                               *)
(***************************************************************************)
C26_ContextFrame ==
    [][d_context' # d_context =>
          \E i \in 1..Len(tasks) :
              /\ tasks[i].pc = "in_exec"
              /\ action[tasks[i].step_id] = "http_request"
              /\ tasks'[i].pc = "push"
              /\ tasks'[i].status = "Passed"
              /\ \A k \in DagTargets :
                    d_context'[k] # d_context[k]
                        => k \in d_extracted'[tasks[i].step_id]]_vars

\* a run in which a step was Skipped, a step Failed and a step extracted
C26_Witness ==
    /\ mainPc = "done"
    /\ \E n \in Nodes : HasStatus(n, "Skipped")
    /\ \E n \in Nodes : HasStatus(n, "Failed") /\ invoked[n] >= 1
    /\ \E n \in Nodes : d_extracted[n] # {}
    /\ \E k \in DagTargets : d_context[k] = "new"

\* the number of violations of a result that name a limit
ViolationsNamed(v, name) == Cardinality({i \in 1..Len(v) : v[i] = name})

\* validate_limits has been called on the plan
LimitsChecked ==
    /\ runPc \notin {"idle", "validate", "validated"}
    /\ errors = <<>>

(***************************************************************************)
(* C27: validate_limits passes exactly when the plan has at most max_steps *)
(* steps and at most max_retries_total retries in total, and its result    *)
(* holds exactly one violation, named after the limit, for each limit that *)
(* is exceeded and none for a limit that is not.                           *)
(***************************************************************************)
C27_LimitsExact ==
    LimitsChecked =>
        LET step_count == Len(plan.steps)
            retries == total_retries(plan.steps, 1)
        IN /\ passed(violations) <=>
                  (/\ step_count <= limits.max_steps
                   /\ retries <= limits.max_retries_total)
           /\ ViolationsNamed(violations, "max_steps") =
                  (IF step_count > limits.max_steps THEN 1 ELSE 0)
           /\ ViolationsNamed(violations, "max_retries_total") =
                  (IF retries > limits.max_retries_total THEN 1 ELSE 0)
           /\ \A i \in 1..Len(violations) :
                  violations[i] \in {"max_steps", "max_retries_total"}

\* both limits are exceeded at once and both are reported
C27_Witness ==
    /\ LimitsChecked
    /\ Len(plan.steps) > limits.max_steps
    /\ total_retries(plan.steps, 1) > limits.max_retries_total
    /\ Len(violations) = 2

(***************************************************************************)
(* C28: the Context exclusive lock is not held while a step performs its   *)
(* HTTP I/O or its wait: no task that is inside its executor body holds    *)
(* the write lock of the Context.                                          *)
(***************************************************************************)
C28_ExecutorBodyLockFree ==
    \A i \in DOMAIN tasks : tasks[i].pc = "in_exec" => ctxLock # i

(***************************************************************************)
(* C29: whenever the main loop or a task holds more than one of the        *)
(* registry locks, it took them in the order nodes, completed, failed,     *)
(* ready.                                                                  *)
(***************************************************************************)
C29_CanonicalLockOrder ==
    LET rank == [nodes |-> 1, completed |-> 2, failed |-> 3, ready |-> 4]
    IN \A p \in DOMAIN holds :
          \A i, j \in 1..Len(holds[p]) :
              (/\ i < j
               /\ holds[p][i].lock \in RegistryLocks
               /\ holds[p][j].lock \in RegistryLocks)
                  => rank[holds[p][i].lock] < rank[holds[p][j].lock]

(***************************************************************************)
(* C30: in execute_sequential every step that depends on a step which      *)
(* ended Failed ends Skipped (its executor is not invoked).                 *)
(***************************************************************************)
C30_SequentialSkipsDependents ==
    runPc = "sequential" =>
        \A i, j \in 1..Len(step_results) :
            (/\ step_results[j] = "Failed"
             /\ \E k \in 1..Len(plan.steps[i].depends_on) :
                    plan.steps[i].depends_on[k] = plan.steps[j].id)
                => step_results[i] = "Skipped"

(***************************************************************************)
(* C31: every CircularDependency(step_id) error of validate_plan names a   *)
(* step that lies on a cycle of the depends_on graph; a step that is on no *)
(* cycle is never reported.                                                *)
(***************************************************************************)
C31_CircularNamesCycleStep ==
    runPc = "validated" =>
        \A k \in 1..Len(errors) :
            errors[k].kind = "CircularDependency"
                => \E i \in 1..Len(plan.steps) :
                      /\ plan.steps[i].id = errors[k].step_id
                      /\ i \in ReachedFrom(plan.steps,
                                           {j \in 1..Len(plan.steps) :
                                               DependsOnStep(plan.steps, i, j)},
                                           Len(plan.steps))

(***************************************************************************)
(* C32: a step whose action no executor handles (and whose dependencies    *)
(* did not fail) gets exactly one result, Failed with the error "No        *)
(* executor for action", and each of its dependents ends Skipped.          *)
(***************************************************************************)
C32_NoExecutorFailsOnce ==
    Settled =>
        \A n \in Nodes :
            (/\ ~HasExecutor(action[n])
             /\ FailedDeps(n) = {}
             /\ ResultCount(n) >= 1)
                => /\ ResultCount(n) = 1
                   /\ \A r \in ResultsOf(n) :
                         r.status = "Failed" /\ r.error = "no_executor"
                   /\ \A m \in dependents[n] : HasStatus(m, "Skipped")

(***************************************************************************)
(* C33: under strategy = retry the sleep after the k-th failed attempt     *)
(* lasts backoff_ms * backoff_factor^(k-1) milliseconds (in whole          *)
(* milliseconds) in both retry loops, and a loop sleeps only between two   *)
(* attempts: fewer times than max_attempts.                                *)
(***************************************************************************)
C33_BackoffSequence ==
    \A loop \in {bk_main, bk_rx} :
        /\ \A k \in 1..Len(loop.sleeps) :
              loop.sleeps[k] =
                 (bk_policy.backoff_ms * bk_policy.backoff_factor[1] ^ (k - 1))
                    \div (bk_policy.backoff_factor[2] ^ (k - 1))
        /\ loop.sleeps # <<>> => Len(loop.sleeps) < bk_policy.max_attempts

(***************************************************************************)
(* C34: for a RetryCounter with limit L, under any interleaving of         *)
(* concurrent try_increment calls, current() is the number of calls made,  *)
(* and once the n calls made have returned exactly min(n, L) of them       *)
(* returned true.                                                          *)
(***************************************************************************)
C34_CounterExact ==
    LET made == {p \in DOMAIN rc_calls : rc_calls[p].pc # "idle"}
        granted == {p \in made : rc_calls[p].pc = "returned" /\ rc_calls[p].result}
        n == Cardinality(made)
    IN /\ current = n
       /\ (\A p \in made : rc_calls[p].pc = "returned")
             => Cardinality(granted) = (IF n < rc_limit THEN n ELSE rc_limit)

\* more calls than the limit were made and returned, some true and some false
C34_Witness ==
    /\ rc_calls # <<>>
    /\ \A p \in Callers : rc_calls[p].pc = "returned"
    /\ \E p \in Callers : rc_calls[p].result
    /\ \E p \in Callers : ~rc_calls[p].result
    /\ current = NumCallers

(***************************************************************************)
(* C35: the lock usage of the scheduler is deadlock-free: whenever the     *)
(* main loop or a task is at a step of its code, one of them can take the  *)
(* step, even when a reader gives way to every writer that waits for the   *)
(* lock (RwLock is write-preferring).                                      *)
(***************************************************************************)
C35_DeadlockFree ==
    LET running == {p \in DOMAIN lpc : HasCode(p)}
        waits_to_write(q, l) ==
            /\ CodeAt(q).op = "take"
            /\ CodeAt(q).mode = "write"
            /\ l \in CodeAt(q).locks
        can_step(p) ==
            CodeAt(p).op = "take"
                => \E l \in CodeAt(p).locks :
                      /\ CanTake(l, CodeAt(p).mode)
                      /\ CodeAt(p).mode = "read"
                            => \A q \in running \ {p} : ~waits_to_write(q, l)
    IN running # {} => \E p \in running : can_step(p)

\* a task waits for a permit while another waits for a lock that is held
C35_Witness ==
    /\ lpc # <<>>
    /\ \E p, q \in LockTasks :
          /\ lpc[p] = "t_permit"
          /\ ~CanTake("semaphore", "permit")
          /\ HasCode(q)
          /\ CodeAt(q).op = "take"
          /\ CodeAt(q).mode # "permit"
          /\ \A l \in CodeAt(q).locks : ~CanTake(l, CodeAt(q).mode)

(***************************************************************************)
(* C36: for the same recovery policy and the same sequence of attempt      *)
(* outcomes, execute_step_with_retry and RetryExecutor::execute make the   *)
(* same number of invocations and end with the same outcome: success,      *)
(* ignored failure or failure.                                             *)
(***************************************************************************)
C36_RetryLoopsEquivalent ==
    (mPc = "returned" /\ rPc = "returned") =>
        LET last == outcomes[mInvoked]
            main_kind ==
                IF mResult.status = "Failed" THEN "err"
                ELSE IF last.ok /\ last.status = "Passed" THEN "ok_some"
                ELSE "ok_none"
        IN /\ mInvoked = rInvoked
           /\ main_kind = rResult.kind

(***************************************************************************)
(* C37: a plan with at most max_steps steps, none of which has a recovery  *)
(* policy, passes the limit check of execute_plan under the default        *)
(* limits.                                                                 *)
(***************************************************************************)
C37_NoRetryPlanPasses ==
    (/\ LimitsChecked
     /\ limits = DefaultLimits
     /\ Len(plan.steps) <= limits.max_steps
     /\ \A i \in 1..Len(plan.steps) : plan.steps[i].recovery_policy = NoPolicy)
        => passed(violations)

====
